---- MODULE Spec2Model ----
(***************************************************************************)
(* A model of wolfserve: the startup loop of main() that builds the        *)
(* routing table, the TLS registry and the two port lists; the request     *)
(* dispatch of handle_request; the SNI resolver; and the rewrite engine    *)
(* of apache.rs (apply_rewrites and what it calls).                        *)
(*                                                                         *)
(* Text is a sequence of one-character strings, so that the string         *)
(* operations of the source (contains, starts_with, replace, split,        *)
(* trim_start_matches) are computed on characters as the source does.      *)
(***************************************************************************)
EXTENDS Integers, Sequences, FiniteSets, TLC

(* ------------------------------------------------------------------ *)
(* Option<T>                                                           *)
(* ------------------------------------------------------------------ *)
None == [some |-> FALSE]

Some(x) == [some |-> TRUE, v |-> x]

(* ------------------------------------------------------------------ *)
(* str operations of the standard library, on character sequences      *)
(* ------------------------------------------------------------------ *)
StartsWith(s, p) ==
    /\ Len(p) <= Len(s)
    /\ SubSeq(s, 1, Len(p)) = p

Contains(s, p) ==
    \E i \in 1..(Len(s) - Len(p) + 1) : SubSeq(s, i, i + Len(p) - 1) = p

\* str::find: byte index of the first occurrence (1-based here), 0 when absent
Find(s, p) ==
    LET hits == {i \in 1..(Len(s) - Len(p) + 1) : SubSeq(s, i, i + Len(p) - 1) = p}
    IN  IF hits = {} THEN 0 ELSE CHOOSE i \in hits : \A j \in hits : i <= j

Drop(s, n) == SubSeq(s, n + 1, Len(s))

RECURSIVE TrimStartMatches(_, _)
TrimStartMatches(s, c) ==
    IF s # <<>> /\ Head(s) = c THEN TrimStartMatches(Tail(s), c) ELSE s

\* str::strip_prefix
StripPrefix(s, p) ==
    IF StartsWith(s, p) THEN Some(Drop(s, Len(p))) ELSE None

\* str::replace: every non-overlapping occurrence of a non-empty `from`,
\* found left to right, is replaced; the inserted text is not rescanned.
RECURSIVE Replace(_, _, _)
Replace(s, from, to) ==
    IF Len(s) < Len(from) THEN s
    ELSE IF SubSeq(s, 1, Len(from)) = from
         THEN to \o Replace(Drop(s, Len(from)), from, to)
         ELSE <<Head(s)>> \o Replace(Tail(s), from, to)

\* str::split(c).next(): the text before the first c
RECURSIVE SplitFirst(_, _)
SplitFirst(s, c) ==
    IF s = <<>> \/ Head(s) = c THEN <<>>
    ELSE <<Head(s)>> \o SplitFirst(Tail(s), c)

LowerCaseLetters ==
    <<"a", "b", "c", "d", "e", "f", "g", "h", "i", "j", "k", "l", "m",
      "n", "o", "p", "q", "r", "s", "t", "u", "v", "w", "x", "y", "z">>

UpperCaseLetters ==
    <<"A", "B", "C", "D", "E", "F", "G", "H", "I", "J", "K", "L", "M",
      "N", "O", "P", "Q", "R", "S", "T", "U", "V", "W", "X", "Y", "Z">>

UpperOf ==
    [c \in {LowerCaseLetters[i] : i \in 1..Len(LowerCaseLetters)} |->
        UpperCaseLetters[CHOOSE i \in 1..Len(LowerCaseLetters) : LowerCaseLetters[i] = c]]

ToUpperChar(c) == IF c \in DOMAIN UpperOf THEN UpperOf[c] ELSE c

ToLowerChar(c) ==
    IF \E l \in DOMAIN UpperOf : UpperOf[l] = c
    THEN CHOOSE l \in DOMAIN UpperOf : UpperOf[l] = c
    ELSE c

ToUppercase(s) == [i \in 1..Len(s) |-> ToUpperChar(s[i])]

Digits == <<"0", "1", "2", "3", "4", "5", "6", "7", "8", "9">>

IsAsciiDigit(c) == \E i \in 1..10 : Digits[i] = c

DigitValue(c) == (CHOOSE i \in 1..10 : Digits[i] = c) - 1

RECURSIVE TakeWhileDigit(_)
TakeWhileDigit(s) ==
    IF s # <<>> /\ IsAsciiDigit(Head(s))
    THEN <<Head(s)>> \o TakeWhileDigit(Tail(s))
    ELSE <<>>

RECURSIVE DecimalValue(_)
DecimalValue(s) ==
    IF s = <<>> THEN 0
    ELSE DecimalValue(SubSeq(s, 1, Len(s) - 1)) * 10 + DigitValue(s[Len(s)])

\* str::parse::<u16>() of a run of ASCII digits
ParseU16(s) ==
    IF s = <<>> \/ DecimalValue(s) > 65535 THEN None ELSE Some(DecimalValue(s))

\* ------------------------------------------------------------------
\* Regex::new and Regex::captures for the pattern family the rules of
\* this model use: an optional case-insensitivity prefix, an optional
\* start anchor, literals and greedy any-text groups, an optional end
\* anchor. A pattern with a parenthesis that opens no such group does
\* not compile, as an unbalanced group does not in the regex crate.
\* ------------------------------------------------------------------
NoCasePrefix == <<"(", "?", "i", ")">>

GroupText == <<"(", ".", "*", ")">>

Group == "(.*)"

MetaChars == {"(", ")", "*", "[", "]", "+", "?", "{", "}", "|", "\\"}

RECURSIVE RegexItems(_)
RegexItems(p) ==
    IF p = <<>> THEN Some(<<>>)
    ELSE IF StartsWith(p, GroupText)
         THEN LET r == RegexItems(Drop(p, 4))
              IN  IF r.some THEN Some(<<Group>> \o r.v) ELSE None
         ELSE IF Head(p) \in MetaChars THEN None
              ELSE LET r == RegexItems(Tail(p))
                   IN  IF r.some THEN Some(<<Head(p)>> \o r.v) ELSE None

RegexNew(pattern) ==
    LET nc == StartsWith(pattern, NoCasePrefix)
        p1 == IF nc THEN Drop(pattern, 4) ELSE pattern
        as == p1 # <<>> /\ Head(p1) = "^"
        p2 == IF as THEN Tail(p1) ELSE p1
        ae == p2 # <<>> /\ p2[Len(p2)] = "$"
        p3 == IF ae THEN SubSeq(p2, 1, Len(p2) - 1) ELSE p2
        it == RegexItems(p3)
    IN  IF it.some
        THEN Some([nocase |-> nc, anchor_start |-> as, anchor_end |-> ae, items |-> it.v])
        ELSE None

CharEq(a, b, nc) == IF nc THEN ToLowerChar(a) = ToLowerChar(b) ELSE a = b

\* The preferred (greedy, leftmost-first) match of items at position pos.
RECURSIVE MatchItems(_, _, _, _, _)
MatchItems(items, s, pos, ae, nc) ==
    IF items = <<>>
    THEN IF ae /\ pos # Len(s) + 1 THEN None ELSE Some([end |-> pos, groups |-> <<>>])
    ELSE IF Head(items) = Group
         THEN LET ok == {n \in 0..(Len(s) + 1 - pos) :
                            MatchItems(Tail(items), s, pos + n, ae, nc).some}
              IN  IF ok = {} THEN None
                  ELSE LET n == CHOOSE m \in ok : \A k \in ok : k <= m
                           r == MatchItems(Tail(items), s, pos + n, ae, nc).v
                       IN  Some([end |-> r.end,
                                 groups |-> <<SubSeq(s, pos, pos + n - 1)>> \o r.groups])
         ELSE IF pos <= Len(s) /\ CharEq(s[pos], Head(items), nc)
              THEN MatchItems(Tail(items), s, pos + 1, ae, nc)
              ELSE None

\* Regex::captures: the leftmost match; caps.get(0) is `whole`, caps.get(i)
\* is groups[i].
Captures(re, s) ==
    LET starts == IF re.anchor_start THEN {1} ELSE 1..(Len(s) + 1)
        ok == {p \in starts : MatchItems(re.items, s, p, re.anchor_end, re.nocase).some}
    IN  IF ok = {} THEN None
        ELSE LET p == CHOOSE q \in ok : \A k \in ok : q <= k
                 r == MatchItems(re.items, s, p, re.anchor_end, re.nocase).v
             IN  Some([whole |-> SubSeq(s, p, r.end - 1), groups |-> r.groups])

IsMatch(re, s) == Captures(re, s).some

CapsGet(caps, i) ==
    IF i = 0 THEN Some(caps.whole)
    ELSE IF i <= Len(caps.groups) THEN Some(caps.groups[i]) ELSE None

(* ------------------------------------------------------------------ *)
(* apache.rs: the rewrite engine                                       *)
(* ------------------------------------------------------------------ *)

\* parse_rewrite_rule on the whitespace-separated parts of a RewriteRule
\* line: parts[1] is the directive word, parts[2] the pattern, parts[3] the
\* substitution and parts[4], when present, the flag text.
RedirectFlag(flags) ==
    IF Contains(flags, <<"R">>)
    THEN LET start == Find(flags, <<"R", "=">>)
             parsed == IF start # 0
                       THEN ParseU16(TakeWhileDigit(Drop(flags, start + 1)))
                       ELSE None
         IN  IF parsed.some THEN parsed ELSE Some(302)
    ELSE None

parse_rewrite_rule(parts) ==
    IF Len(parts) < 3 THEN None
    ELSE LET flags == IF Len(parts) >= 4 THEN ToUppercase(parts[4]) ELSE <<>>
         IN  Some([pattern      |-> parts[2],
                   substitution |-> parts[3],
                   conditions   |-> <<>>,
                   last         |-> Contains(flags, <<"L">>),
                   redirect     |-> RedirectFlag(flags),
                   nocase       |-> Contains(flags, <<"N", "C">>),
                   qsappend     |-> Contains(flags, <<"Q", "S", "A">>),
                   passthrough  |-> Contains(flags, <<"P", "T">>),
                   skip         |-> parts[3] = <<"-">>])

\* parse_rewrite_cond on the parts of a RewriteCond line
parse_rewrite_cond(parts) ==
    IF Len(parts) < 3 THEN None
    ELSE LET negate == StartsWith(parts[3], <<"!">>)
             flags == IF Len(parts) >= 4 THEN ToUppercase(parts[4]) ELSE <<>>
         IN  Some([test_string |-> parts[2],
                   pattern     |-> IF negate THEN Tail(parts[3]) ELSE parts[3],
                   negate      |-> negate,
                   nocase      |-> Contains(flags, <<"N", "C">>),
                   or_next     |-> Contains(flags, <<"O", "R">>)])

\* Path::is_file and the other file tests, on a filesystem given as a
\* function from path text to [kind, size, symlink]
PathExists(files, p) == p \in DOMAIN files

PathIsFile(files, p) == p \in DOMAIN files /\ files[p].kind = "file"

PathIsDir(files, p) == p \in DOMAIN files /\ files[p].kind = "dir"

\* expand_variables: the test string is a sequence whose elements are
\* characters and whole placeholders; each placeholder is replaced by the
\* characters of its value, in the order of the source.
expand_variables(s, c, current_uri) ==
    LET r1 == Replace(s,  <<"%{REQUEST_URI}">>, current_uri)
        r2 == Replace(r1, <<"%{REQUEST_FILENAME}">>, c.request_filename)
        r3 == Replace(r2, <<"%{QUERY_STRING}">>, c.query_string)
        r4 == Replace(r3, <<"%{HTTP_HOST}">>, c.http_host)
        r5 == Replace(r4, <<"%{REQUEST_METHOD}">>, c.request_method)
        r6 == Replace(r5, <<"%{DOCUMENT_ROOT}">>, c.document_root)
        r7 == Replace(r6, <<"%{HTTPS}">>, IF c.https THEN <<"o", "n">> ELSE <<"o", "f", "f">>)
    IN  r7

\* faulty variant: the file tests are not recognised, every pattern is a regex
test_conditionRegexOnly(files, test_value, pattern, nocase) ==
    LET re == RegexNew(IF nocase THEN NoCasePrefix \o pattern ELSE pattern)
    IN  IF re.some THEN IsMatch(re.v, test_value) ELSE FALSE

\* faulty variant: a pattern that does not compile counts as a match
test_conditionErrorMatches(files, test_value, pattern, nocase) ==
    CASE pattern = <<"-", "f">> -> PathIsFile(files, test_value)
      [] pattern = <<"-", "d">> -> PathIsDir(files, test_value)
      [] pattern = <<"-", "s">> -> PathExists(files, test_value) /\ files[test_value].size > 0
      [] pattern = <<"-", "l">> -> PathExists(files, test_value) /\ files[test_value].symlink
      [] pattern = <<"-", "F">> -> PathExists(files, test_value)
      [] OTHER ->
            LET re == RegexNew(IF nocase THEN NoCasePrefix \o pattern ELSE pattern)
            IN  IF re.some THEN IsMatch(re.v, test_value) ELSE TRUE

\* lines 213-234
test_condition(files, test_value, pattern, nocase) ==
    CASE pattern = <<"-", "f">> -> PathIsFile(files, test_value)
      [] pattern = <<"-", "d">> -> PathIsDir(files, test_value)
      [] pattern = <<"-", "s">> -> PathExists(files, test_value) /\ files[test_value].size > 0
      [] pattern = <<"-", "l">> -> PathExists(files, test_value) /\ files[test_value].symlink
      [] pattern = <<"-", "F">> -> PathExists(files, test_value)
      [] OTHER ->
            LET re == RegexNew(IF nocase THEN NoCasePrefix \o pattern ELSE pattern)
            IN  IF re.some THEN IsMatch(re.v, test_value) ELSE FALSE

RECURSIVE EvaluateFrom(_, _, _, _, _, _, _)
EvaluateFrom(files, conditions, c, current_uri, i, result, or_chain) ==
    IF i > Len(conditions) THEN result
    ELSE LET cond == conditions[i]
             test_value == expand_variables(cond.test_string, c, current_uri)
             raw == test_condition(files, test_value, cond.pattern, cond.nocase)
             matched == IF cond.negate THEN ~raw ELSE raw
         IN  EvaluateFrom(files, conditions, c, current_uri, i + 1,
                          IF or_chain THEN result \/ matched ELSE result /\ matched,
                          cond.or_next)

evaluate_conditions(files, conditions, c, current_uri) ==
    IF conditions = <<>> THEN TRUE
    ELSE EvaluateFrom(files, conditions, c, current_uri, 1, TRUE, FALSE)

\* apply_rewrites, lines 83-90: the match subject
MatchPath(rewrite_base, uri) ==
    IF rewrite_base # <<>> /\ rewrite_base # <<"/">>
    THEN LET stripped == StripPrefix(uri, rewrite_base)
         IN  TrimStartMatches(IF stripped.some THEN stripped.v ELSE uri, "/")
    ELSE TrimStartMatches(uri, "/")

\* lines 99-108: the compiled pattern of a rule
RuleRegex(rule) ==
    RegexNew(IF rule.nocase THEN NoCasePrefix \o rule.pattern ELSE rule.pattern)

\* lines 120-125: the substitution with backreferences $0..$9
RECURSIVE SubstituteFrom(_, _, _)
SubstituteFrom(uri, caps, i) ==
    IF i > 9 THEN uri
    ELSE LET m == CapsGet(caps, i)
         IN  SubstituteFrom(IF m.some THEN Replace(uri, <<"$", Digits[i + 1]>>, m.v) ELSE uri,
                            caps, i + 1)

BuildSubstitution(rule, caps) == SubstituteFrom(rule.substitution, caps, 0)

\* faulty variant: https:// is not recognised
IsAbsoluteUrlHttpOnly(uri) == StartsWith(uri, <<"h", "t", "t", "p", ":", "/", "/">>)

\* line 128
IsAbsoluteUrl(uri) ==
    StartsWith(uri, <<"h", "t", "t", "p", ":", "/", "/">>) \/ StartsWith(uri, <<"h", "t", "t", "p", "s", ":", "/", "/">>)

\* lines 129: the status of a redirect to an absolute URL
AbsoluteUrlStatus(rule) == IF rule.redirect.some THEN rule.redirect.v ELSE 302

\* faulty variant: the base is not put in front
PrependBaseNever(rewrite_base, uri) == uri

\* lines 137-139
PrependBase(rewrite_base, uri) ==
    IF ~StartsWith(uri, <<"/">>) THEN rewrite_base \o uri ELSE uri

\* lines 142-148
AppendQuery(rule, query_string, uri) ==
    IF rule.qsappend /\ query_string # <<>>
    THEN IF Contains(uri, <<"?">>)
         THEN uri \o <<"&">> \o query_string
         ELSE uri \o <<"?">> \o query_string
    ELSE uri

\* lines 136-148: the local target of a matching rule
LocalTarget(rewrite_base, rule, query_string, caps) ==
    AppendQuery(rule, query_string,
                PrependBase(rewrite_base, BuildSubstitution(rule, caps)))

\* RewriteResult
InternalRewrite(path) == [kind |-> "InternalRewrite", path |-> path]

Redirect(url, status) == [kind |-> "Redirect", url |-> url, status |-> status]

\* faulty variant: the `last` flag is not honoured
BreaksLoopNever(rule) == FALSE

\* lines 113-115 and 160-162: a matching rule flagged `last` ends the loop
BreaksLoop(rule) == rule.last

\* lines 166-170
FinalResult(request_uri, uri) ==
    IF uri # request_uri THEN Some(InternalRewrite(uri)) ELSE None

(* ------------------------------------------------------------------ *)
(* Inputs of the rewrite engine                                        *)
(* ------------------------------------------------------------------ *)
MaxRules == 2

\* RewriteCond lines, as their whitespace-separated parts
CondUriIsB == <<"RewriteCond", <<"%{REQUEST_URI}">>, <<"^", "/", "b">>>>

CondNotFile == <<"RewriteCond", <<"%{REQUEST_FILENAME}">>, <<"!", "-", "f">>>>

\* a pattern that does not compile, plain and negated
CondMalformed == <<"RewriteCond", <<"%{REQUEST_URI}">>, <<"(", "a">>>>

CondNotMalformed == <<"RewriteCond", <<"%{REQUEST_URI}">>, <<"!", "(", "a">>>>

\* RewriteRule lines with the RewriteCond lines written above them
RuleLines ==
    { [conds |-> <<>>, rule |-> <<"RewriteRule", <<"^", "o", "l", "d", "/", "(", ".", "*", ")", "$">>, <<"/", "n", "e", "w", "/", "$", "1">>, <<"[", "L", "]">>>>],
      [conds |-> <<>>, rule |-> <<"RewriteRule", <<"^", "a", "$">>, <<"/", "b">>>>],
      [conds |-> <<>>, rule |-> <<"RewriteRule", <<"^", "b", "$">>, <<"/", "c">>, <<"[", "L", "]">>>>],
      [conds |-> <<>>, rule |-> <<"RewriteRule", <<"^", "a", "$">>, <<"/", "a">>, <<"[", "L", "]">>>>],
      [conds |-> <<>>, rule |-> <<"RewriteRule", <<"^", "a", "$">>, <<"b">>, <<"[", "R", "=", "3", "0", "1", "]">>>>],
      [conds |-> <<>>, rule |-> <<"RewriteRule", <<"^", "(", ".", "*", ")", "$">>, <<"h", "t", "t", "p", ":", "/", "/", "h", "/", "$", "1">>, <<"[", "L", "]">>>>],
      [conds |-> <<>>, rule |-> <<"RewriteRule", <<"^", "a", "$">>, <<"h", "t", "t", "p", "s", ":", "/", "/", "h", "/">>, <<"[", "R", "=", "3", "0", "1", ",", "Q", "S", "A", "]">>>>],
      [conds |-> <<>>, rule |-> <<"RewriteRule", <<"^", "a", "$">>, <<"-">>, <<"[", "L", "]">>>>],
      [conds |-> <<>>, rule |-> <<"RewriteRule", <<"^", "A", "$">>, <<"/", "c", "?", "x">>, <<"[", "R", ",", "Q", "S", "A", ",", "N", "C", "]">>>>],
      [conds |-> <<>>, rule |-> <<"RewriteRule", <<"(", "a">>, <<"/", "z">>>>],
      [conds |-> <<CondUriIsB>>, rule |-> <<"RewriteRule", <<"^", "a", "$">>, <<"/", "d">>>>],
      [conds |-> <<CondNotFile>>, rule |-> <<"RewriteRule", <<"^", "b", "$">>, <<"-">>>>],
      [conds |-> <<CondNotFile>>, rule |-> <<"RewriteRule", <<"^", "b", "$">>, <<"/", "e">>>>],
      [conds |-> <<CondMalformed>>, rule |-> <<"RewriteRule", <<"^", "a", "$">>, <<"/", "f">>>>],
      [conds |-> <<CondNotMalformed>>, rule |-> <<"RewriteRule", <<"^", "a", "$">>, <<"/", "g">>>>],
      [conds |-> <<>>, rule |-> <<"RewriteRule", <<"^", "(", ".", "*", ")", "$">>, <<"/", "q", "/", "$", "0">>, <<"[", "L", "]">>>>] }

\* the RewriteRule a rule line and the conditions pending before it give
\* (parse_htaccess_content, lines 289-297)
RuleOf(l) ==
    [parse_rewrite_rule(l.rule).v EXCEPT
        !.conditions = [i \in 1..Len(l.conds) |-> parse_rewrite_cond(l.conds[i]).v]]

Rules == {RuleOf(l) : l \in RuleLines}

RECURSIVE SeqsUpTo(_, _)
SeqsUpTo(S, n) ==
    IF n = 0 THEN {<<>>}
    ELSE LET shorter == SeqsUpTo(S, n - 1)
         IN  shorter \cup {Append(s, x) : s \in {t \in shorter : Len(t) = n - 1}, x \in S}

RewriteBases == {<<"/">>, <<"/", "s", "/">>}

DocumentRoot == <<"/", "w">>

\* request contexts: the URI, the file it maps to and the query string
Contexts ==
    { [request_uri |-> u.uri, request_filename |-> DocumentRoot \o u.uri,
       query_string |-> u.qs, http_host |-> <<"h">>, request_method |-> <<"G", "E", "T">>,
       https |-> FALSE, document_root |-> DocumentRoot] :
      u \in { [uri |-> <<"/", "a">>, qs |-> <<>>],
              [uri |-> <<"/", "a">>, qs |-> <<"q", "=", "1">>],
              [uri |-> <<"/", "b">>, qs |-> <<>>],
              [uri |-> <<"/", "o", "l", "d", "/", "p", "a", "g", "e">>, qs |-> <<>>],
              [uri |-> <<"/", "s", "/", "a">>, qs |-> <<>>],
              [uri |-> <<"/", "a", "$", "1">>, qs |-> <<>>] } }

RegularFile == [kind |-> "file", size |-> 1, symlink |-> FALSE]

Directory == [kind |-> "dir", size |-> 0, symlink |-> FALSE]

\* the file trees the engine runs against
RewriteFileSystems ==
    { (<<"/", "w">> :> Directory) @@ (<<"/", "w", "/", "b">> :> RegularFile),
      (<<"/", "w">> :> Directory) @@ (<<"/", "w", "/", "b">> :> Directory),
      (<<"/", "w">> :> Directory) }

(* ------------------------------------------------------------------ *)
(* apache.rs: RedirectRule::matches                                    *)
(* ------------------------------------------------------------------ *)
RECURSIVE RedirectSubstituteFrom(_, _, _)
RedirectSubstituteFrom(target, caps, i) ==
    IF i > 9 THEN target
    ELSE LET m == CapsGet(caps, i)
         IN  RedirectSubstituteFrom(
                 IF m.some THEN Replace(target, <<"$", Digits[i + 1]>>, m.v) ELSE target,
                 caps, i + 1)

\* Option<(u16, Option<String>)>
matches(rule, path) ==
    IF rule.is_regex
    THEN LET re == RegexNew(rule.from)
             caps == IF re.some THEN Captures(re.v, path) ELSE None
         IN  IF caps.some
             THEN IF rule.to.some
                  THEN Some([status |-> rule.status,
                             target |-> Some(RedirectSubstituteFrom(rule.to.v, caps.v, 1))])
                  ELSE Some([status |-> rule.status, target |-> None])
             ELSE None
    ELSE IF path = rule.from \/ StartsWith(path, rule.from \o <<"/">>)
         THEN IF rule.to.some
              THEN Some([status |-> rule.status,
                         target |-> Some(rule.to.v \o Drop(path, Len(rule.from)))])
              ELSE Some([status |-> rule.status, target |-> None])
         ELSE None

(* ------------------------------------------------------------------ *)
(* main.rs: startup                                                    *)
(* ------------------------------------------------------------------ *)
EmptyMap == [k \in {} |-> k]

Insert(m, k, val) == (k :> val) @@ m

RECURSIVE InsertAll(_, _, _)
InsertAll(m, keys, val) ==
    IF keys = <<>> THEN m ELSE InsertAll(Insert(m, Head(keys), val), Tail(keys), val)

VecContains(vec, x) == \E i \in 1..Len(vec) : vec[i] = x

\* Vec::retain(|&p| p != x)
RECURSIVE RetainNot(_, _)
RetainNot(vec, x) ==
    IF vec = <<>> THEN <<>>
    ELSE IF Head(vec) = x THEN RetainNot(Tail(vec), x)
         ELSE <<Head(vec)>> \o RetainNot(Tail(vec), x)

Elements(vec) == {vec[i] : i \in 1..Len(vec)}

\* the PEM files on disk: certificate files that open and parse, and key
\* files that open and hold a usable private key
GoodCertFiles == {<<"/", "c", "/", "o", "k", ".", "c", "r", "t">>, <<"/", "c", "/", "d", ".", "c", "r", "t">>}

GoodKeyFiles == {<<"/", "c", "/", "o", "k", ".", "k", "e", "y">>, <<"/", "c", "/", "d", ".", "k", "e", "y">>}

\* load_ssl_keys: the CertifiedKey, or the error
load_ssl_keys(cert_path, key_path, chain_path) ==
    IF /\ cert_path \in GoodCertFiles
       /\ key_path \in GoodKeyFiles
       /\ (chain_path.some => chain_path.v \in GoodCertFiles)
    THEN Some([cert_chain |-> IF chain_path.some THEN <<cert_path, chain_path.v>>
                                                 ELSE <<cert_path>>,
               key |-> key_path])
    ELSE None

\* line 221
is_ssl(vhost) == vhost.ssl_cert_file.some /\ vhost.ssl_key_file.some

LoadKeys(vhost) ==
    load_ssl_keys(vhost.ssl_cert_file.v, vhost.ssl_key_file.v, vhost.ssl_chain_file)

\* lines 224-229
HttpsPortsAfter(https, vhost) ==
    IF is_ssl(vhost) /\ ~VecContains(https, vhost.port)
    THEN Append(https, vhost.port)
    ELSE https

\* faulty variant: the retain of line 228 left out
HttpPortsAfterNoRetain(http, https, vhost) ==
    IF is_ssl(vhost) THEN http
    ELSE IF ~VecContains(http, vhost.port) /\ ~VecContains(https, vhost.port)
         THEN Append(http, vhost.port)
         ELSE http

\* lines 224-229 and 244-249
HttpPortsAfter(http, https, vhost) ==
    IF is_ssl(vhost)
    THEN IF ~VecContains(https, vhost.port) THEN RetainNot(http, vhost.port) ELSE http
    ELSE IF ~VecContains(http, vhost.port) /\ ~VecContains(https, vhost.port)
         THEN Append(http, vhost.port)
         ELSE http

\* faulty variant: the names are registered although the load failed
SslCertsAfterOnFailure(certs, vhost) ==
    IF is_ssl(vhost)
    THEN LET cert_arc == IF LoadKeys(vhost).some THEN LoadKeys(vhost).v
                         ELSE [cert_chain |-> <<vhost.ssl_cert_file.v>>,
                               key |-> vhost.ssl_key_file.v]
             named == IF vhost.server_name.some
                      THEN Insert(certs, vhost.server_name.v, cert_arc)
                      ELSE certs
         IN  InsertAll(named, vhost.server_aliases, cert_arc)
    ELSE certs

\* lines 230-243
SslCertsAfter(certs, vhost) ==
    IF is_ssl(vhost) /\ LoadKeys(vhost).some
    THEN LET cert_arc == LoadKeys(vhost).v
             named == IF vhost.server_name.some
                      THEN Insert(certs, vhost.server_name.v, cert_arc)
                      ELSE certs
         IN  InsertAll(named, vhost.server_aliases, cert_arc)
    ELSE certs

DefaultSslCertAfter(default_cert, vhost) ==
    IF /\ is_ssl(vhost) /\ LoadKeys(vhost).some
       /\ ~vhost.server_name.some /\ ~default_cert.some
    THEN Some(LoadKeys(vhost).v)
    ELSE default_cert

\* lines 251-262
VhostsMapAfter(map, vhost) ==
    IF vhost.server_name.some
    THEN InsertAll(Insert(map, vhost.server_name.v, vhost), vhost.server_aliases, vhost)
    ELSE map

DefaultVhostAfter(default, vhost) ==
    IF ~vhost.server_name.some /\ ~default.some THEN Some(vhost) ELSE default

\* faulty variant: the HTTPS listeners start whenever there is a TLS port
HttpsStartsUnchecked(https, certs, default_cert) == https # <<>>

\* line 289
HttpsStarts(https, certs, default_cert) ==
    https # <<>> /\ (DOMAIN certs # {} \/ default_cert.some)

\* faulty variant: the requested name is not looked up
resolveIgnoringSni(certs, default_cert, sni) == default_cert

\* ServerCertResolver::resolve; sni is client_hello.server_name()
resolve(certs, default_cert, sni) ==
    IF sni.some /\ sni.v \in DOMAIN certs
    THEN Some(certs[sni.v])
    ELSE default_cert

(* ------------------------------------------------------------------ *)
(* main.rs: handle_request                                             *)
(* ------------------------------------------------------------------ *)
\* a header byte that is not visible ASCII, so that HeaderValue::to_str fails
OpaqueByte == "0xFF"

\* HeaderValue::to_str
HeaderToStr(value) ==
    IF \E i \in 1..Len(value) : value[i] = OpaqueByte THEN None ELSE Some(value)

\* line 353
CleanPath(uri_path) == TrimStartMatches(uri_path, "/")

\* faulty variant: only a leading ".." is looked for
IsTraversalAtStartOnly(clean_path) == StartsWith(clean_path, <<".", ".">>)

\* line 354
IsTraversal(clean_path) == Contains(clean_path, <<".", ".">>)

HardCodedRoot == <<"p", "u", "b", "l", "i", "c">>

RootOr(vhost, otherwise) ==
    IF vhost.document_root.some THEN vhost.document_root.v ELSE otherwise

\* lines 359-378: host is headers.get("host")
DocRoot(vhosts, default, host) ==
    IF host.some
    THEN LET host_str == HeaderToStr(host.v)
         IN  IF host_str.some
             THEN LET host_name == SplitFirst(host_str.v, ":")
                  IN  IF host_name \in DOMAIN vhosts
                      THEN RootOr(vhosts[host_name], HardCodedRoot)
                      ELSE IF default.some THEN RootOr(default.v, HardCodedRoot)
                           ELSE HardCodedRoot
             ELSE HardCodedRoot
    ELSE IF default.some THEN RootOr(default.v, HardCodedRoot) ELSE HardCodedRoot

\* PathBuf::join of a relative path
Join(root, rel) == IF rel = <<>> THEN root ELSE root \o <<"/">> \o rel

\* Path::extension
Extension(p) ==
    LET slashes == {i \in 1..Len(p) : p[i] = "/"}
        from == IF slashes = {} THEN 0 ELSE CHOOSE i \in slashes : \A j \in slashes : j <= i
        name == Drop(p, from)
        dots == {i \in 2..Len(name) : name[i] = "."}
    IN  IF dots = {} THEN None
        ELSE Some(Drop(name, CHOOSE i \in dots : \A j \in dots : j <= i))

\* lines 382-391: the directory index; None is "Directory listing denied"
IndexOf(fs, path) ==
    IF PathIsDir(fs, path)
    THEN IF PathExists(fs, Join(path, <<"i", "n", "d", "e", "x", ".", "p", "h", "p">>)) THEN Some(Join(path, <<"i", "n", "d", "e", "x", ".", "p", "h", "p">>))
         ELSE IF PathExists(fs, Join(path, <<"i", "n", "d", "e", "x", ".", "h", "t", "m", "l">>))
              THEN Some(Join(path, <<"i", "n", "d", "e", "x", ".", "h", "t", "m", "l">>))
              ELSE None
    ELSE Some(path)

Response(status, body) == [status |-> status, body |-> body]

\* lines 382-405: what the request is answered with once the path is
\* joined, and whether handle_php is called for it
Dispatch(fs, path) ==
    LET indexed == IndexOf(fs, path)
    IN  IF ~indexed.some
        THEN [response |-> Response(403, "Directory listing denied"), php |-> FALSE,
              path |-> path]
        ELSE IF ~PathExists(fs, indexed.v)
             THEN [response |-> Response(404, "Not Found"), php |-> FALSE,
                   path |-> indexed.v]
             ELSE IF Extension(indexed.v) = Some(<<"p", "h", "p">>)
                  THEN [response |-> Response(200, "php output"), php |-> TRUE,
                        path |-> indexed.v]
                  ELSE [response |-> Response(200, "file content"), php |-> FALSE,
                        path |-> indexed.v]

(* ------------------------------------------------------------------ *)
(* Inputs of the server                                                *)
(* ------------------------------------------------------------------ *)
MaxHosts == 2

ServerPort == 3000

VHost(port, name, aliases, root, cert, key, redirects) ==
    [port |-> port, server_name |-> name, server_aliases |-> aliases,
     document_root |-> root, ssl_cert_file |-> cert, ssl_key_file |-> key,
     ssl_chain_file |-> None, redirects |-> redirects]

\* Redirect /x.php /y
RedirectXToY ==
    [status |-> 302, from |-> <<"/", "x", ".", "p", "h", "p">>, to |-> Some(<<"/", "y">>), is_regex |-> FALSE]

\* the <VirtualHost> blocks load_apache_config can return
HostBlocks ==
    { VHost(80, Some(<<"a">>), <<<<"b">>>>, Some(<<"/", "w", "/", "a">>), None, None, <<RedirectXToY>>),
      VHost(443, Some(<<"a">>), <<<<"b">>>>, Some(<<"/", "w", "/", "a">>),
            Some(<<"/", "c", "/", "o", "k", ".", "c", "r", "t">>), Some(<<"/", "c", "/", "o", "k", ".", "k", "e", "y">>), <<>>),
      VHost(443, Some(<<"a">>), <<<<"c">>>>, None,
            Some(<<"/", "c", "/", "o", "k", ".", "c", "r", "t">>), Some(<<"/", "c", "/", "b", "a", "d", ".", "k", "e", "y">>), <<>>),
      VHost(ServerPort, None, <<>>, Some(<<"/", "w", "/", "d">>),
            Some(<<"/", "c", "/", "d", ".", "c", "r", "t">>), Some(<<"/", "c", "/", "d", ".", "k", "e", "y">>), <<>>),
      VHost(80, None, <<>>, None, None, None, <<>>),
      VHost(443, Some(<<"d">>), <<>>, Some(<<"/", "w", "/", "a">>), Some(<<"/", "c", "/", "o", "k", ".", "c", "r", "t">>), None, <<>>),
      VHost(8443, None, <<<<"b">>>>, Some(<<"/", "w", "/", "d">>),
            Some(<<"/", "c", "/", "d", ".", "c", "r", "t">>), Some(<<"/", "c", "/", "o", "k", ".", "k", "e", "y">>), <<>>),
      VHost(ServerPort, Some(<<"c">>), <<>>, None,
            Some(<<"/", "c", "/", "o", "k", ".", "c", "r", "t">>), Some(<<"/", "c", "/", "b", "a", "d", ".", "k", "e", "y">>), <<>>) }

\* the file tree the server serves from
ServerFileSystems ==
    { (<<"p", "u", "b", "l", "i", "c">> :> Directory) @@ (<<"p", "u", "b", "l", "i", "c", "/", "x", ".", "p", "h", "p">> :> RegularFile)
      @@ (<<"/", "w", "/", "a">> :> Directory) @@ (<<"/", "w", "/", "a", "/", "i", "n", "d", "e", "x", ".", "p", "h", "p">> :> RegularFile)
      @@ (<<"/", "w", "/", "a", "/", "x", ".", "p", "h", "p">> :> RegularFile)
      @@ (<<"/", "w", "/", "d">> :> Directory) @@ (<<"/", "w", "/", "d", "/", "i", "n", "d", "e", "x", ".", "h", "t", "m", "l">> :> RegularFile) }

\* the Host header of a request: absent, or its bytes
HostHeaders ==
    { None, Some(<<"a">>), Some(<<"b", ":", "8", "0", "8", "0">>), Some(<<"c">>), Some(<<"z", "z">>),
      Some(<<OpaqueByte>>) }

RequestPaths == {<<"/">>, <<"/", "x", ".", "p", "h", "p">>, <<"/", "i", "/", ".", ".", "/", "x", ".", "p", "h", "p">>, <<"/", "n", "o", "p", "e">>}

\* the server names a ClientHello can carry
ServerNames == {None, Some(<<"a">>), Some(<<"b">>), Some(<<"c">>), Some(<<"z", "z">>)}

(* ------------------------------------------------------------------ *)
(* State                                                               *)
(* ------------------------------------------------------------------ *)
VARIABLES
    files,            \* the filesystem
    loaded_vhosts,    \* main: what load_apache_config returned
    next_vhost,       \* main: position of the `for vhost in loaded_vhosts` loop
    vhosts_map,       \* main: vhosts_map, then AppState.vhosts
    default_vhost,    \* main: default_vhost, then AppState.default_vhost
    ssl_certs,        \* main: ssl_certs, then ServerCertResolver.certs
    default_ssl_cert, \* main: default_ssl_cert, then ServerCertResolver.default_cert
    http_ports,       \* main: http_ports
    https_ports,      \* main: https_ports
    main_pc,          \* main: "loading", "serving" ("off" when main is not run)
    listeners,        \* the ports with a spawned listener task, by kind
    task,             \* one handle_request call and its position
    peer,             \* a second handle_request call, running concurrently with the first
    hello,            \* the last TLS handshake: the server name and what resolve returned
    htaccess,         \* the HtaccessConfig apply_rewrites runs on
    ctx,              \* the RewriteContext
    rw,               \* one apply_rewrites call: position, locals, result, trace
    ec,               \* one evaluate_conditions call: position and locals
    parser,           \* one run of a configuration parser over the lines of a file
    php,              \* one handle_php call: position, backend, what was handed over
    apache,           \* one parse_apache_file call: position in the file and locals
    cgi               \* one spawned interpreter: the gateway, the child and their pipes

server_vars ==
    <<loaded_vhosts, next_vhost, vhosts_map, default_vhost, ssl_certs, default_ssl_cert,
      http_ports, https_ports, main_pc, listeners, task, peer, hello>>

rewrite_vars == <<htaccess, ctx, rw>>

unit_vars == <<ec, parser, php, apache, cgi>>

vars == <<files, server_vars, rewrite_vars, unit_vars>>

IdleTask ==
    [pc |-> "idle", port |-> 0, host |-> None, uri_path |-> <<>>, routed |-> FALSE,
     fs_accessed |-> FALSE, doc_root |-> None, path |-> None, php_called |-> FALSE,
     response |-> None]

IdleRewrite ==
    [pc |-> "off", idx |-> 0, current_uri |-> <<>>, match_path |-> <<>>,
     result |-> None, log |-> <<>>, calls |-> 1, first |-> None]

ServerOff ==
    /\ loaded_vhosts = <<>>
    /\ next_vhost = 1
    /\ vhosts_map = EmptyMap
    /\ default_vhost = None
    /\ ssl_certs = EmptyMap
    /\ default_ssl_cert = None
    /\ http_ports = <<>>
    /\ https_ports = <<>>
    /\ main_pc = "off"
    /\ listeners = [http |-> {}, https |-> {}]
    /\ task = IdleTask
    /\ peer = IdleTask
    /\ hello = None

RewriteOff ==
    /\ htaccess = [rewrite_engine |-> FALSE, rewrite_base |-> <<"/">>,
                   rewrite_rules |-> <<>>, redirects |-> <<>>]
    /\ ctx = CHOOSE c \in Contexts : TRUE
    /\ rw = IdleRewrite

IdleEc ==
    [pc |-> "off", conditions |-> <<>>, current_uri |-> <<>>, i |-> 0,
     result |-> TRUE, or_chain |-> FALSE, returned |-> None]

IdleParser ==
    [pc |-> "off", kind |-> "htaccess", lines |-> <<>>, pos |-> 1,
     config |-> [rewrite_engine |-> FALSE, rewrite_base |-> <<"/">>,
                 rewrite_rules |-> <<>>, redirects |-> <<>>],
     pending_conditions |-> <<>>, rule_lines |-> <<>>, vhost_redirects |-> <<>>,
     probe |-> None]

IdlePhp ==
    [pc |-> "off", mode |-> "fpm", fpm_address |-> None,
     request |-> [method |-> <<>>, path |-> <<>>, query |-> None, headers |-> <<>>],
     script_path |-> <<>>, elapsed |-> 0, connect_kind |-> "none",
     connect_result |-> "none", stream |-> "none", connections |-> 0,
     spawn_attempts |-> 0, exchanges |-> 0, params |-> None, handed |-> None,
     failed |-> FALSE, stdout |-> None, response |-> None]

IdleApache ==
    [pc |-> "off", lines |-> <<>>, pos |-> 1, vhosts |-> <<>>, current_vhost |-> None]

IdleCgi ==
    [pc |-> "off", body |-> <<>>, written |-> 0, plan |-> <<>>, child |-> "none",
     stdin |-> <<>>, stdin_open |-> FALSE, stdout |-> <<>>, stderr |-> <<>>,
     out |-> <<>>, err |-> <<>>, response |-> None]

FilesOff ==
    /\ apache = IdleApache
    /\ cgi = IdleCgi

UnitsOff ==
    /\ ec = IdleEc
    /\ parser = IdleParser
    /\ php = IdlePhp
    /\ FilesOff

(* ------------------------------------------------------------------ *)
(* main: the startup loop and the listeners                            *)
(* ------------------------------------------------------------------ *)
\* lines 210-219
Init ==
    /\ files \in ServerFileSystems
    /\ loaded_vhosts \in SeqsUpTo(HostBlocks, MaxHosts)
    /\ next_vhost = 1
    /\ vhosts_map = EmptyMap
    /\ default_vhost = None
    /\ ssl_certs = EmptyMap
    /\ default_ssl_cert = None
    /\ http_ports = <<ServerPort>>
    /\ https_ports = <<>>
    /\ main_pc = "loading"
    /\ listeners = [http |-> {}, https |-> {}]
    /\ task = IdleTask
    /\ peer = IdleTask
    /\ hello = None
    /\ RewriteOff
    /\ UnitsOff

\* lines 220-263: one iteration of the loop over the loaded hosts
ProcessVHost ==
    /\ main_pc = "loading"
    /\ next_vhost <= Len(loaded_vhosts)
    /\ LET vhost == loaded_vhosts[next_vhost]
       IN  /\ https_ports' = HttpsPortsAfter(https_ports, vhost)
           /\ http_ports' = HttpPortsAfter(http_ports, https_ports, vhost)
           /\ ssl_certs' = SslCertsAfter(ssl_certs, vhost)
           /\ default_ssl_cert' = DefaultSslCertAfter(default_ssl_cert, vhost)
           /\ vhosts_map' = VhostsMapAfter(vhosts_map, vhost)
           /\ default_vhost' = DefaultVhostAfter(default_vhost, vhost)
    /\ next_vhost' = next_vhost + 1
    /\ UNCHANGED <<files, loaded_vhosts, main_pc, listeners, task, peer, hello, rewrite_vars,
                   unit_vars>>

\* lines 265-343: the state is frozen and the listener tasks are spawned
StartListeners ==
    /\ main_pc = "loading"
    /\ next_vhost > Len(loaded_vhosts)
    /\ listeners' =
          [http  |-> Elements(http_ports),
           https |-> IF HttpsStarts(https_ports, ssl_certs, default_ssl_cert)
                     THEN Elements(https_ports) ELSE {}]
    /\ main_pc' = "serving"
    /\ UNCHANGED <<files, loaded_vhosts, next_vhost, vhosts_map, default_vhost, ssl_certs,
                   default_ssl_cert, http_ports, https_ports, task, peer, hello, rewrite_vars,
                   unit_vars>>

\* faulty variant: the resolver remembers the pair it returned under the
\* server name of the handshake
TlsHandshakeCaching ==
    /\ main_pc = "serving"
    /\ listeners.https # {}
    /\ \E sni \in ServerNames :
          LET cert == resolve(ssl_certs, default_ssl_cert, sni)
          IN  /\ hello' = Some([server_name |-> sni, cert |-> cert])
              /\ ssl_certs' = IF sni.some /\ cert.some THEN Insert(ssl_certs, sni.v, cert.v)
                                                      ELSE ssl_certs
    /\ UNCHANGED <<files, loaded_vhosts, next_vhost, vhosts_map, default_vhost,
                   default_ssl_cert, http_ports, https_ports, main_pc, listeners, task, peer,
                   rewrite_vars, unit_vars>>

\* lines 308-318: a TLS handshake on an HTTPS listener asks the resolver
TlsHandshake ==
    /\ main_pc = "serving"
    /\ listeners.https # {}
    /\ \E sni \in ServerNames :
          hello' = Some([server_name |-> sni,
                         cert |-> resolve(ssl_certs, default_ssl_cert, sni)])
    /\ UNCHANGED <<files, loaded_vhosts, next_vhost, vhosts_map, default_vhost, ssl_certs,
                   default_ssl_cert, http_ports, https_ports, main_pc, listeners, task, peer,
                   rewrite_vars, unit_vars>>

ServerFrame ==
    UNCHANGED <<files, loaded_vhosts, next_vhost, vhosts_map, default_vhost, ssl_certs,
                default_ssl_cert, http_ports, https_ports, main_pc, listeners, peer, hello,
                rewrite_vars, unit_vars>>

\* a request reaches handle_request through a listener
AcceptRequest ==
    /\ main_pc = "serving"
    /\ task.pc = "idle"
    /\ \E port \in listeners.http \cup listeners.https, host \in HostHeaders,
          uri_path \in RequestPaths :
          task' = [IdleTask EXCEPT !.pc = "traversal", !.port = port, !.host = host,
                                   !.uri_path = uri_path]
    /\ ServerFrame

\* handle_request, lines 350-356
RejectTraversal ==
    /\ task.pc = "traversal"
    /\ IsTraversal(CleanPath(task.uri_path))
    /\ task' = [task EXCEPT !.pc = "done", !.response = Some(Response(403, "Forbidden"))]
    /\ ServerFrame

PassTraversal ==
    /\ task.pc = "traversal"
    /\ ~IsTraversal(CleanPath(task.uri_path))
    /\ task' = [task EXCEPT !.pc = "route"]
    /\ ServerFrame

\* handle_request, lines 358-380
Route ==
    /\ task.pc = "route"
    /\ LET doc_root == DocRoot(vhosts_map, default_vhost, task.host)
       IN  task' = [task EXCEPT !.pc = "serve", !.routed = TRUE,
                                !.doc_root = Some(doc_root),
                                !.path = Some(Join(doc_root, CleanPath(task.uri_path)))]
    /\ ServerFrame

\* handle_request, lines 382-405
Serve ==
    /\ task.pc = "serve"
    /\ LET d == Dispatch(files, task.path.v)
       IN  task' = [task EXCEPT !.pc = "done", !.fs_accessed = TRUE,
                                !.path = Some(d.path), !.php_called = d.php,
                                !.response = Some(d.response)]
    /\ ServerFrame

\* the response is written and the task ends
Respond ==
    /\ task.pc = "done"
    /\ task' = IdleTask
    /\ ServerFrame

\* the requests of the concurrent task
PeerRequests ==
    { [host |-> Some(<<"a">>), uri_path |-> <<"/", "x", ".", "p", "h", "p">>],
      [host |-> None, uri_path |-> <<"/", "i", "/", ".", ".", "/", "x", ".", "p", "h", "p">>] }

\* handle_request, lines 349-405, from one await point to the next: the
\* task record after the step, read from the shared state and the files
HandleRequestStep(t) ==
    IF t.pc = "traversal"
    THEN IF IsTraversal(CleanPath(t.uri_path))
         THEN [t EXCEPT !.pc = "done", !.response = Some(Response(403, "Forbidden"))]
         ELSE [t EXCEPT !.pc = "route"]
    ELSE IF t.pc = "route"
    THEN LET doc_root == DocRoot(vhosts_map, default_vhost, t.host)
         IN  [t EXCEPT !.pc = "serve", !.routed = TRUE, !.doc_root = Some(doc_root),
                       !.path = Some(Join(doc_root, CleanPath(t.uri_path)))]
    ELSE LET d == Dispatch(files, t.path.v)
         IN  [t EXCEPT !.pc = "done", !.fs_accessed = TRUE, !.path = Some(d.path),
                       !.php_called = d.php, !.response = Some(d.response)]

PeerFrame ==
    UNCHANGED <<files, loaded_vhosts, next_vhost, vhosts_map, default_vhost, ssl_certs,
                default_ssl_cert, http_ports, https_ports, main_pc, listeners, task, hello,
                rewrite_vars, unit_vars>>

\* a second connection is accepted while the first task may be under way
PeerAccept ==
    /\ main_pc = "serving"
    /\ peer.pc = "idle"
    /\ listeners.http \cup listeners.https # {}
    /\ \E req \in PeerRequests :
          peer' = [IdleTask EXCEPT !.pc = "traversal", !.host = req.host,
                                   !.uri_path = req.uri_path]
    /\ PeerFrame

\* the second task runs handle_request up to its next await point
PeerStep ==
    /\ peer.pc \in {"traversal", "route", "serve"}
    /\ peer' = HandleRequestStep(peer)
    /\ PeerFrame

PeerRespond ==
    /\ peer.pc = "done"
    /\ peer' = IdleTask
    /\ PeerFrame

Next ==
    \/ ProcessVHost
    \/ StartListeners
    \/ TlsHandshake
    \/ AcceptRequest
    \/ RejectTraversal
    \/ PassTraversal
    \/ Route
    \/ Serve
    \/ Respond
    \/ PeerAccept
    \/ PeerStep
    \/ PeerRespond

Spec == Init /\ [][Next]_vars

(* ------------------------------------------------------------------ *)
(* apache.rs: apply_rewrites as a state machine, one step per rule     *)
(* ------------------------------------------------------------------ *)
InitRewrite ==
    /\ files \in RewriteFileSystems
    /\ ServerOff
    /\ UnitsOff
    /\ \E engine \in BOOLEAN, base \in RewriteBases,
          rules \in SeqsUpTo(Rules, MaxRules) :
          htaccess = [rewrite_engine |-> engine, rewrite_base |-> base,
                      rewrite_rules |-> rules, redirects |-> <<>>]
    /\ ctx \in Contexts
    /\ rw = [IdleRewrite EXCEPT !.pc = "start"]

RewriteFrame == UNCHANGED <<files, server_vars, htaccess, ctx, unit_vars>>

\* lines 76-78
EngineOff ==
    /\ rw.pc = "start"
    /\ ~htaccess.rewrite_engine
    /\ rw' = [rw EXCEPT !.pc = "done", !.result = None]
    /\ RewriteFrame

\* faulty variant: the loop position is kept from one call to the next
BeginResuming ==
    /\ rw.pc = "start"
    /\ htaccess.rewrite_engine
    /\ rw' = [rw EXCEPT !.pc = "loop", !.idx = rw.idx + 1,
                        !.current_uri = ctx.request_uri,
                        !.match_path = MatchPath(htaccess.rewrite_base, ctx.request_uri)]
    /\ RewriteFrame

\* lines 80-90
Begin ==
    /\ rw.pc = "start"
    /\ htaccess.rewrite_engine
    /\ rw' = [rw EXCEPT !.pc = "loop", !.idx = 1,
                        !.current_uri = ctx.request_uri,
                        !.match_path = MatchPath(htaccess.rewrite_base, ctx.request_uri)]
    /\ RewriteFrame

InLoop == rw.pc = "loop" /\ rw.idx <= Len(htaccess.rewrite_rules)

CurrentRule == htaccess.rewrite_rules[rw.idx]

ConditionsHold ==
    evaluate_conditions(files, CurrentRule.conditions, ctx, rw.current_uri)

CurrentCaptures ==
    IF RuleRegex(CurrentRule).some
    THEN Captures(RuleRegex(CurrentRule).v, rw.match_path)
    ELSE None

\* the trace entry of a visited rule: the URI the conditions were expanded
\* with and, when the pattern was tried, the subject it was tried on
Visit(subject) ==
    Append(rw.log, [rule |-> rw.idx, uri |-> rw.current_uri, subject |-> subject])

\* the rule at which the loop stands when the call ends
Stop(result) ==
    [rw EXCEPT !.pc = "done", !.result = result, !.log = Visit(Some(rw.match_path))]

\* lines 94-96
ConditionsFail ==
    /\ InLoop
    /\ ~ConditionsHold
    /\ rw' = [rw EXCEPT !.idx = rw.idx + 1, !.log = Visit(None)]
    /\ RewriteFrame

\* lines 105-108
PatternInvalid ==
    /\ InLoop
    /\ ConditionsHold
    /\ ~RuleRegex(CurrentRule).some
    /\ rw' = [rw EXCEPT !.idx = rw.idx + 1, !.log = Visit(None)]
    /\ RewriteFrame

\* line 110, no match
PatternNoMatch ==
    /\ InLoop
    /\ ConditionsHold
    /\ RuleRegex(CurrentRule).some
    /\ ~CurrentCaptures.some
    /\ rw' = [rw EXCEPT !.idx = rw.idx + 1, !.log = Visit(Some(rw.match_path))]
    /\ RewriteFrame

Matched ==
    /\ InLoop
    /\ ConditionsHold
    /\ RuleRegex(CurrentRule).some
    /\ CurrentCaptures.some

\* lines 112-117
SkipRule ==
    /\ Matched
    /\ CurrentRule.substitution = <<"-">>
    /\ rw' = [rw EXCEPT !.pc = IF BreaksLoop(CurrentRule) THEN "after" ELSE "loop",
                        !.idx = IF BreaksLoop(CurrentRule) THEN rw.idx ELSE rw.idx + 1,
                        !.log = Visit(Some(rw.match_path))]
    /\ RewriteFrame

\* lines 119-134
AbsoluteRedirect ==
    /\ Matched
    /\ CurrentRule.substitution # <<"-">>
    /\ LET new_uri == BuildSubstitution(CurrentRule, CurrentCaptures.v)
       IN  /\ IsAbsoluteUrl(new_uri)
           /\ rw' = Stop(Some(Redirect(new_uri, AbsoluteUrlStatus(CurrentRule))))
    /\ RewriteFrame

\* lines 136-156
StatusRedirect ==
    /\ Matched
    /\ CurrentRule.substitution # <<"-">>
    /\ ~IsAbsoluteUrl(BuildSubstitution(CurrentRule, CurrentCaptures.v))
    /\ CurrentRule.redirect.some
    /\ rw' = Stop(Some(Redirect(LocalTarget(htaccess.rewrite_base, CurrentRule,
                                            ctx.query_string, CurrentCaptures.v),
                                CurrentRule.redirect.v)))
    /\ RewriteFrame

\* lines 136-148 and 158-162
InternalStep ==
    /\ Matched
    /\ CurrentRule.substitution # <<"-">>
    /\ ~IsAbsoluteUrl(BuildSubstitution(CurrentRule, CurrentCaptures.v))
    /\ ~CurrentRule.redirect.some
    /\ rw' = [rw EXCEPT !.pc = IF BreaksLoop(CurrentRule) THEN "after" ELSE "loop",
                        !.idx = IF BreaksLoop(CurrentRule) THEN rw.idx ELSE rw.idx + 1,
                        !.current_uri = LocalTarget(htaccess.rewrite_base, CurrentRule,
                                                    ctx.query_string, CurrentCaptures.v),
                        !.log = Visit(Some(rw.match_path))]
    /\ RewriteFrame

\* lines 166-170
Finish ==
    /\ \/ rw.pc = "after"
       \/ rw.pc = "loop" /\ rw.idx > Len(htaccess.rewrite_rules)
    /\ rw' = [rw EXCEPT !.pc = "done",
                        !.result = FinalResult(ctx.request_uri, rw.current_uri)]
    /\ RewriteFrame

NextRewrite ==
    \/ EngineOff
    \/ Begin
    \/ ConditionsFail
    \/ PatternInvalid
    \/ PatternNoMatch
    \/ SkipRule
    \/ AbsoluteRedirect
    \/ StatusRedirect
    \/ InternalStep
    \/ Finish

SpecRewrite == InitRewrite /\ [][NextRewrite]_vars

(* ------------------------------------------------------------------ *)
(* Properties of startup and dispatch (specification Spec)             *)
(* ------------------------------------------------------------------ *)
Processed == 1..(next_vhost - 1)

\* the hosts that declare both a certificate file and a key file
TlsEligible(vhost) == vhost.ssl_cert_file # None /\ vhost.ssl_key_file # None

\* C1: at every point of startup and afterwards, the plaintext port list and
\* the TLS port list share no port, and the port of every processed host
\* that declares both a certificate file and a key file is a TLS port and
\* not a plaintext port; the plaintext listeners are the plaintext ports.
C1_PortSetsDisjoint ==
    /\ Elements(http_ports) \cap Elements(https_ports) = {}
    /\ \A i \in Processed :
          TlsEligible(loaded_vhosts[i]) =>
             /\ loaded_vhosts[i].port \notin Elements(http_ports)
             /\ loaded_vhosts[i].port \in Elements(https_ports)
    /\ main_pc = "serving" => listeners.http = Elements(http_ports)

\* C1 witness: startup is over and a port first taken by a host without TLS
\* was taken over by a later TLS-eligible host
C1_Witness ==
    /\ main_pc = "serving"
    /\ \E i, j \in Processed :
          /\ i < j
          /\ ~TlsEligible(loaded_vhosts[i])
          /\ TlsEligible(loaded_vhosts[j])
          /\ loaded_vhosts[i].port = loaded_vhosts[j].port

NamedHost(host) ==
    IF host.some /\ HeaderToStr(host.v).some
          /\ SplitFirst(HeaderToStr(host.v).v, ":") \in DOMAIN vhosts_map
    THEN Some(vhosts_map[SplitFirst(HeaderToStr(host.v).v, ":")])
    ELSE None

\* the first rule of a redirect list that matches a path
FirstRedirect(redirects, path) ==
    LET hits == {i \in 1..Len(redirects) : matches(redirects[i], path).some}
    IN  IF hits = {} THEN None
        ELSE matches(redirects[CHOOSE i \in hits : \A j \in hits : i <= j], path)

\* C3: once a request is routed to a registered virtual host, a redirect
\* rule of that host that matches the request path decides the answer: the
\* request is answered with the status and target of the first matching
\* rule and is not resolved to a script or a static file.
C3_RedirectsScannedFirst ==
    (task.pc = "done" /\ task.routed /\ NamedHost(task.host).some
        /\ FirstRedirect(NamedHost(task.host).v.redirects, task.uri_path).some) =>
       /\ task.response.v.status =
             FirstRedirect(NamedHost(task.host).v.redirects, task.uri_path).v.status
       /\ ~task.fs_accessed
       /\ ~task.php_called

\* the document root the router contract names for a Host header: the
\* root of the host registered under the header's name (port suffix
\* stripped), else the root of the default host, else the hard-coded
\* directory; a host whose block declares no DocumentRoot is taken to
\* select the hard-coded directory, as handle_request does
ContractDocRoot(host) ==
    LET name == IF host.some /\ HeaderToStr(host.v).some
                THEN Some(SplitFirst(HeaderToStr(host.v).v, ":"))
                ELSE None
        rootOf(vhost) == IF vhost.document_root.some THEN vhost.document_root.v
                         ELSE <<"p", "u", "b", "l", "i", "c">>
    IN  IF name.some /\ name.v \in DOMAIN vhosts_map THEN rootOf(vhosts_map[name.v])
        ELSE IF default_vhost.some THEN rootOf(default_vhost.v)
             ELSE <<"p", "u", "b", "l", "i", "c">>

\* C4: for every shape of Host header (absent, known, unknown, not
\* decodable as text, naming a host without DocumentRoot) the document
\* root handle_request chooses is the one the router contract names.
C4_DocRootFollowsContract ==
    task.routed => task.doc_root = Some(ContractDocRoot(task.host))

\* the material of a TLS-eligible host, as load_ssl_keys returns it
Material(vhost) ==
    [cert_chain |-> <<vhost.ssl_cert_file.v>>, key |-> vhost.ssl_key_file.v]

Loads(vhost) ==
    /\ vhost.ssl_cert_file.v \in GoodCertFiles
    /\ vhost.ssl_key_file.v \in GoodKeyFiles

Declares(vhost, name) ==
    vhost.server_name = Some(name) \/ name \in Elements(vhost.server_aliases)

\* the processed hosts whose material loaded and that declare a name
Registrants(name) ==
    {i \in Processed : /\ TlsEligible(loaded_vhosts[i])
                       /\ Loads(loaded_vhosts[i])
                       /\ Declares(loaded_vhosts[i], name)}

\* the processed hosts without ServerName whose material loaded
Nameless ==
    {i \in Processed : /\ TlsEligible(loaded_vhosts[i])
                       /\ Loads(loaded_vhosts[i])
                       /\ loaded_vhosts[i].server_name = None}

\* C5: a handshake is answered with the pair of a host that declares
\* exactly the requested server name as its ServerName or as an alias
\* (the one loaded last, when several do); when the client sent no name or
\* no loaded host declares it, with the default pair, which is the pair of
\* the first loaded host without ServerName; and with nothing when there is
\* no such host.
C5_ResolveBySni ==
    hello.some =>
       LET sni == hello.v.server_name
       IN  IF sni.some /\ Registrants(sni.v) # {}
           THEN hello.v.cert =
                   Some(Material(loaded_vhosts[
                        CHOOSE i \in Registrants(sni.v) :
                           \A j \in Registrants(sni.v) : j <= i]))
           ELSE IF Nameless # {}
                THEN hello.v.cert =
                        Some(Material(loaded_vhosts[
                             CHOOSE i \in Nameless : \A j \in Nameless : i <= j]))
                ELSE hello.v.cert = None

\* C5 witness: a handshake that asked for an alias got the pair of the
\* host declaring that alias, while a different default pair exists
C5_Witness ==
    /\ hello.some
    /\ hello.v.server_name = Some(<<"b">>)
    /\ hello.v.cert.some
    /\ default_ssl_cert.some
    /\ hello.v.cert # default_ssl_cert

Failed(vhost) == TlsEligible(vhost) /\ ~Loads(vhost)

\* a host with a ServerName is in the table under that name and its
\* aliases; a host without one is entered as the default host, or finds a
\* default host already there, and its aliases are not entered
Routed(vhost) ==
    IF vhost.server_name.some
    THEN /\ vhost.server_name.v \in DOMAIN vhosts_map
         /\ \A a \in Elements(vhost.server_aliases) : a \in DOMAIN vhosts_map
    ELSE default_vhost.some

\* C6 as stated: the names of a host whose material failed to load are
\* absent from the TLS registry, the host is in the routing table, and an
\* empty registry without default pair starts no HTTPS listener.
C6_FailedHostNamesAbsent ==
    /\ \A i \in Processed :
          Failed(loaded_vhosts[i]) =>
             /\ \A n \in DOMAIN ssl_certs : ~Declares(loaded_vhosts[i], n)
             /\ Routed(loaded_vhosts[i])
    /\ (main_pc = "serving" /\ DOMAIN ssl_certs = {} /\ ~default_ssl_cert.some) =>
          listeners.https = {}

\* C6 amended: startup processes every loaded host and enters each in the
\* routing table, also after a host whose material failed to load; no
\* entry of the TLS registry and no default pair holds the material of a
\* failed host, and a name of a failed host is in the registry only when
\* another host whose material loaded declares it too; an empty registry
\* without default pair starts no HTTPS listener.
C6_FailedHostOmitted ==
    /\ \A i \in Processed :
          /\ Routed(loaded_vhosts[i])
          /\ Failed(loaded_vhosts[i]) =>
                /\ \A n \in DOMAIN ssl_certs :
                      /\ ssl_certs[n] # Material(loaded_vhosts[i])
                      /\ Declares(loaded_vhosts[i], n) => Registrants(n) # {}
                /\ default_ssl_cert # Some(Material(loaded_vhosts[i]))
    /\ main_pc = "serving" => next_vhost = Len(loaded_vhosts) + 1
    /\ (main_pc = "serving" /\ DOMAIN ssl_certs = {} /\ ~default_ssl_cert.some) =>
          listeners.https = {}

\* C6 witness: startup is over, the first host failed to load its material,
\* the host after it loaded its own, and the HTTPS listeners run
C6_Witness ==
    /\ main_pc = "serving"
    /\ Len(loaded_vhosts) = 2
    /\ Failed(loaded_vhosts[1])
    /\ TlsEligible(loaded_vhosts[2]) /\ Loads(loaded_vhosts[2])
    /\ Routed(loaded_vhosts[1])
    /\ listeners.https # {}

(* ------------------------------------------------------------------ *)
(* Properties of the rewrite engine (specification SpecRewrite)        *)
(* ------------------------------------------------------------------ *)
Visited == 1..Len(rw.log)

RuleAt(i) == htaccess.rewrite_rules[rw.log[i].rule]

\* the subject of the call: the request URI without the base
Subject ==
    LET base == htaccess.rewrite_base
        uri == ctx.request_uri
    IN  TrimStartMatches(
           IF base # <<>> /\ base # <<"/">> /\ StartsWith(uri, base)
           THEN Drop(uri, Len(base)) ELSE uri, "/")

\* rule i of the trace matched: its conditions held for the URI current at
\* that point, its pattern compiled and matched the subject
Hit(i) ==
    /\ evaluate_conditions(files, RuleAt(i).conditions, ctx, rw.log[i].uri)
    /\ RuleRegex(RuleAt(i)).some
    /\ Captures(RuleRegex(RuleAt(i)).v, Subject).some

\* the substitution of rule i with the capture groups put in
Substituted(i) ==
    SubstituteFrom(RuleAt(i).substitution, Captures(RuleRegex(RuleAt(i)).v, Subject).v, 0)

IsExternal(uri) == StartsWith(uri, <<"h", "t", "t", "p", ":", "/", "/">>) \/ StartsWith(uri, <<"h", "t", "t", "p", "s", ":", "/", "/">>)

\* the local form of a substituted result: the base in front unless it
\* starts with a slash, the query string behind when qsappend asks for it
Localised(i) ==
    LET based == IF Substituted(i) # <<>> /\ Head(Substituted(i)) = "/"
                 THEN Substituted(i)
                 ELSE htaccess.rewrite_base \o Substituted(i)
    IN  IF RuleAt(i).qsappend /\ ctx.query_string # <<>>
        THEN based \o (IF \E k \in 1..Len(based) : based[k] = "?" THEN <<"&">> ELSE <<"?">>)
                   \o ctx.query_string
        ELSE based

\* rule i matched as a `last` rule that rewrites internally
LastHit(i) ==
    /\ Hit(i)
    /\ RuleAt(i).last
    /\ RuleAt(i).substitution # <<"-">>
    /\ ~IsExternal(Substituted(i))
    /\ ~RuleAt(i).redirect.some

\* C7 as stated: after a `last` rule matched with a local substitution and
\* no redirect status, no later rule is visited and the call returns an
\* internal rewrite to the substituted path.
C7_LastGivesInternalRewrite ==
    \A i \in Visited :
       LastHit(i) =>
          /\ i = Len(rw.log)
          /\ rw.pc = "done" => rw.result = Some(InternalRewrite(Localised(i)))

\* C7 amended: after a `last` rule matched with a local substitution and no
\* redirect status, no later rule is visited, and the call returns an
\* internal rewrite to the substituted path when that path differs from
\* the request URI and no rewrite when it equals the request URI.
C7_LastStopsTheLoop ==
    \A i \in Visited :
       LastHit(i) =>
          /\ i = Len(rw.log)
          /\ rw.pc \in {"after", "done"}
          /\ rw.pc = "done" =>
                rw.result = IF Localised(i) # ctx.request_uri
                            THEN Some(InternalRewrite(Localised(i)))
                            ELSE None

\* C7 witness: ^old/(.*)$ -> /new/$1 [L] on /old/page, followed by another
\* rule, returned an internal rewrite to /new/page after one visit
C7_Witness ==
    /\ rw.pc = "done"
    /\ ctx.request_uri = <<"/", "o", "l", "d", "/", "p", "a", "g", "e">>
    /\ Len(htaccess.rewrite_rules) = 2
    /\ htaccess.rewrite_rules[1].pattern = <<"^", "o", "l", "d", "/", "(", ".", "*", ")", "$">>
    /\ Len(rw.log) = 1
    /\ rw.result = Some(InternalRewrite(<<"/", "n", "e", "w", "/", "p", "a", "g", "e">>))

\* C8: when a matching rule carries a redirect status and its substituted
\* result is not an absolute URL, the call ends at that rule with an
\* external redirect of exactly that status to the result, the base put in
\* front when the result does not start with a slash and the query string
\* appended only when qsappend is set and the query string is not empty;
\* R=301 gives 301 and a bare R gives 302.
C8_StatusRedirect ==
    /\ \A i \in Visited :
          (/\ Hit(i)
           /\ RuleAt(i).substitution # <<"-">>
           /\ RuleAt(i).redirect.some
           /\ ~IsExternal(Substituted(i))) =>
             /\ i = Len(rw.log)
             /\ rw.pc = "done"
             /\ rw.result = Some([kind |-> "Redirect", url |-> Localised(i),
                                  status |-> RuleAt(i).redirect.v])
    /\ \A r \in Rules :
          /\ r.substitution = <<"b">> => r.redirect = Some(301)
          /\ r.substitution = <<"/", "c", "?", "x">> => r.redirect = Some(302)

\* C8 witness: the bare path b with R=301 under the base /s/ gave a
\* redirect to /s/b with status 301, while a second rule was never visited
C8_Witness ==
    /\ rw.pc = "done"
    /\ htaccess.rewrite_base = <<"/", "s", "/">>
    /\ Len(htaccess.rewrite_rules) = 2
    /\ Len(rw.log) = 1
    /\ rw.result = Some([kind |-> "Redirect", url |-> <<"/", "s", "/", "b">>, status |-> 301])

\* C9: whenever a matching rule's substituted result begins with http://
\* or https://, the call ends at that rule with an external redirect to
\* exactly that URL, with the rule's redirect status or 302 when it has
\* none, whatever the rule's other flags and whatever earlier rules did.
C9_AbsoluteUrlRedirect ==
    \A i \in Visited :
       (/\ Hit(i)
        /\ RuleAt(i).substitution # <<"-">>
        /\ IsExternal(Substituted(i))) =>
          /\ i = Len(rw.log)
          /\ rw.pc = "done"
          /\ rw.result = Some([kind |-> "Redirect", url |-> Substituted(i),
                               status |-> IF RuleAt(i).redirect.some
                                          THEN RuleAt(i).redirect.v ELSE 302])

\* C9 witness: after an earlier rule rewrote the URI, a rule without
\* redirect status gave an absolute URL and the call returned a 302
\* redirect to it
C9_Witness ==
    /\ rw.pc = "done"
    /\ Len(rw.log) = 2
    /\ rw.log[2].uri # ctx.request_uri
    /\ rw.result.some
    /\ rw.result.v.kind = "Redirect"
    /\ rw.result.v.status = 302
    /\ StartsWith(rw.result.v.url, <<"h", "t", "t", "p", ":", "/", "/", "h", "/">>)

\* C10: every rule whose pattern is tried is tried on the subject obtained
\* from the URI current at that point (base stripped), so that a rewrite
\* by an earlier rule is what a later rule matches; and the call that runs
\* the loop to its end returns an internal rewrite exactly when the final
\* current URI differs from the request URI.
C10_RewritesChain ==
    /\ \A i \in Visited :
          rw.log[i].subject.some =>
             rw.log[i].subject.v = MatchPath(htaccess.rewrite_base, rw.log[i].uri)
    /\ (rw.pc = "done" /\ htaccess.rewrite_engine
           /\ (rw.result.some => rw.result.v.kind = "InternalRewrite")) =>
          rw.result = IF rw.current_uri # ctx.request_uri
                      THEN Some(InternalRewrite(rw.current_uri)) ELSE None

\* the condition `%{REQUEST_FILENAME} !-f` as parse_rewrite_cond stores it
NotFileCond ==
    [test_string |-> <<"%{REQUEST_FILENAME}">>, pattern |-> <<"-", "f">>, negate |-> TRUE,
     nocase |-> FALSE, or_next |-> FALSE]

\* rule i of the trace is gated by that single condition and its pattern
\* matches the subject
GatedByNotFile(i) ==
    /\ RuleAt(i).conditions = <<NotFileCond>>
    /\ RuleRegex(RuleAt(i)).some
    /\ Captures(RuleRegex(RuleAt(i)).v, Subject).some

\* the call ran the single rule `RewriteCond %{REQUEST_FILENAME} !-f`,
\* `RewriteRule ^b$ /e` on the request /b
SoleGatedRule ==
    /\ rw.pc = "done"
    /\ htaccess.rewrite_engine
    /\ Len(htaccess.rewrite_rules) = 1
    /\ htaccess.rewrite_rules[1].conditions = <<NotFileCond>>
    /\ htaccess.rewrite_rules[1].substitution = <<"/", "e">>
    /\ ctx.request_uri = <<"/", "b">>

\* C13 as stated: a rule gated by the single condition
\* `%{REQUEST_FILENAME} !-f` whose pattern matches fires if and only if
\* nothing exists on disk at the expanded request filename (nothing, a
\* regular file and a directory at the path are all covered).
C13_FiresIffNothingOnDisk ==
    /\ \A i \in Visited :
          GatedByNotFile(i) =>
             (rw.log[i].subject.some <=> ~PathExists(files, ctx.request_filename))
    /\ SoleGatedRule =>
          (rw.result = Some(InternalRewrite(<<"/", "e">>))
              <=> ~PathExists(files, ctx.request_filename))

\* C13: a rule gated by the single condition `%{REQUEST_FILENAME} !-f`
\* whose pattern matches fires if and only if there is no regular file at
\* the expanded request filename: it fires when nothing is at the path and
\* when a directory is at the path, and it does not fire when a regular
\* file is there; the outcome is that of the file test, not of a regex
\* match of the text `-f`.
C13_FiresIffNoRegularFile ==
    /\ \A i \in Visited :
          GatedByNotFile(i) =>
             (rw.log[i].subject.some <=> ~PathIsFile(files, ctx.request_filename))
    /\ SoleGatedRule =>
          (rw.result = Some(InternalRewrite(<<"/", "e">>))
              <=> ~PathIsFile(files, ctx.request_filename))

\* C13 witness: with a directory at the request filename the gated rule
\* fired and rewrote /b to /e
C13_Witness ==
    /\ SoleGatedRule
    /\ PathIsDir(files, ctx.request_filename)
    /\ Len(rw.log) = 1
    /\ rw.log[1].subject.some
    /\ rw.result = Some(InternalRewrite(<<"/", "e">>))

(* ------------------------------------------------------------------ *)
(* apache.rs: evaluate_conditions as a state machine, one step per     *)
(* condition                                                           *)
(* ------------------------------------------------------------------ *)
MaxConds == 3

CondUriIsAOr == <<"RewriteCond", <<"%{REQUEST_URI}">>, <<"^", "/", "a">>, <<"[", "O", "R", "]">>>>

CondNotUriA == <<"RewriteCond", <<"%{REQUEST_URI}">>, <<"!", "^", "/", "a">>>>

CondIsDirOr == <<"RewriteCond", <<"%{REQUEST_FILENAME}">>, <<"-", "d">>, <<"[", "O", "R", "]">>>>

CondQueryNoCase == <<"RewriteCond", <<"%{QUERY_STRING}">>, <<"Q", "=", "1">>, <<"[", "N", "C", "]">>>>

\* the RewriteCond lines the condition lists are drawn from
CondLines ==
    {CondUriIsB, CondNotFile, CondUriIsAOr, CondNotUriA, CondIsDirOr, CondQueryNoCase}

Conds == {parse_rewrite_cond(l).v : l \in CondLines}

\* the URI current when the conditions of a rule are evaluated
CurrentUris == {<<"/", "a">>, <<"/", "b">>}

\* faulty variant: every condition is AND-combined
CombineAndOnly(result, or_chain, matched) == result /\ matched

\* lines 186-190
Combine(result, or_chain, matched) ==
    IF or_chain THEN result \/ matched ELSE result /\ matched

\* lines 182-184: the truth value of one condition
Matched1(cond, c, current_uri) ==
    LET test_value == expand_variables(cond.test_string, c, current_uri)
        matched == test_condition(files, test_value, cond.pattern, cond.nocase)
    IN  IF cond.negate THEN ~matched ELSE matched

InitConditions ==
    /\ files \in RewriteFileSystems
    /\ ServerOff
    /\ htaccess = [rewrite_engine |-> FALSE, rewrite_base |-> <<"/">>,
                   rewrite_rules |-> <<>>, redirects |-> <<>>]
    /\ ctx \in Contexts
    /\ rw = IdleRewrite
    /\ \E conditions \in SeqsUpTo(Conds, MaxConds), current_uri \in CurrentUris :
          ec = [IdleEc EXCEPT !.pc = "start", !.conditions = conditions,
                              !.current_uri = current_uri]
    /\ parser = IdleParser
    /\ php = IdlePhp
    /\ FilesOff

ConditionsFrame == UNCHANGED <<files, server_vars, rewrite_vars, parser, php, apache, cgi>>

\* lines 174-176
EcEmpty ==
    /\ ec.pc = "start"
    /\ ec.conditions = <<>>
    /\ ec' = [ec EXCEPT !.pc = "done", !.returned = Some(TRUE)]
    /\ ConditionsFrame

\* lines 178-179
EcBegin ==
    /\ ec.pc = "start"
    /\ ec.conditions # <<>>
    /\ ec' = [ec EXCEPT !.pc = "loop", !.i = 1, !.result = TRUE, !.or_chain = FALSE]
    /\ ConditionsFrame

\* lines 181-193: one iteration of `for cond in conditions`
EcStep ==
    /\ ec.pc = "loop"
    /\ ec.i <= Len(ec.conditions)
    /\ LET cond == ec.conditions[ec.i]
       IN  ec' = [ec EXCEPT !.i = ec.i + 1,
                            !.result = Combine(ec.result, ec.or_chain,
                                               Matched1(cond, ctx, ec.current_uri)),
                            !.or_chain = cond.or_next]
    /\ ConditionsFrame

\* line 195
EcReturn ==
    /\ ec.pc = "loop"
    /\ ec.i > Len(ec.conditions)
    /\ ec' = [ec EXCEPT !.pc = "done", !.returned = Some(ec.result)]
    /\ ConditionsFrame

NextConditions ==
    \/ EcEmpty
    \/ EcBegin
    \/ EcStep
    \/ EcReturn

SpecConditions == InitConditions /\ [][NextConditions]_vars

(* ------------------------------------------------------------------ *)
(* Properties of evaluate_conditions (specification SpecConditions)    *)
(* ------------------------------------------------------------------ *)
\* the truth value of condition k of the call, negation applied
CondValue(k) ==
    LET c == ec.conditions[k]
        raw == test_condition(files, expand_variables(c.test_string, ctx, ec.current_uri),
                              c.pattern, c.nocase)
    IN  IF c.negate THEN ~raw ELSE raw

\* the left-to-right fold of the first n truth values, starting from true:
\* value n is OR-combined when condition n-1 has or_next, AND-combined
\* otherwise
RECURSIVE FoldTo(_)
FoldTo(n) ==
    IF n = 0 THEN TRUE
    ELSE IF n > 1 /\ ec.conditions[n - 1].or_next
         THEN FoldTo(n - 1) \/ CondValue(n)
         ELSE FoldTo(n - 1) /\ CondValue(n)

\* C11: evaluate_conditions returns the left-to-right fold of the
\* conditions' truth values starting from true, each value negated first
\* when `negate` is set, OR-combined with the accumulated result when the
\* preceding condition has `or_next` and AND-combined otherwise; there is no
\* precedence, `or_next` on the last condition has no effect, an empty list
\* is true, and the loop and the function the rewrite engine calls agree.
C11_LeftToRightFold ==
    /\ ec.pc = "loop" => ec.result = FoldTo(ec.i - 1)
    /\ ec.pc = "done" =>
          /\ ec.returned = Some(FoldTo(Len(ec.conditions)))
          /\ ec.returned = Some(evaluate_conditions(files, ec.conditions, ctx, ec.current_uri))
          /\ ec.conditions = <<>> => ec.returned = Some(TRUE)

\* C11 witness: `^/a [OR]`, `^/b`, `!^/a` on the URI /a returned false,
\* (true OR false) AND false, where AND binding tighter than OR would have
\* given true
C11_Witness ==
    /\ ec.pc = "done"
    /\ ec.current_uri = <<"/", "a">>
    /\ Len(ec.conditions) = 3
    /\ ec.conditions[1].or_next /\ ec.conditions[1].pattern = <<"^", "/", "a">>
    /\ ec.conditions[2].pattern = <<"^", "/", "b">>
    /\ ec.conditions[3].negate /\ ec.conditions[3].pattern = <<"^", "/", "a">>
    /\ ec.returned = Some(FALSE)

(* ------------------------------------------------------------------ *)
(* apache.rs: the configuration parsers                                *)
(*                                                                     *)
(* A line is the sequence of its whitespace-separated words, each a    *)
(* character sequence; the words of a line stand one blank apart and   *)
(* the line is already trimmed.                                        *)
(* ------------------------------------------------------------------ *)
\* the text of a run of words
RECURSIVE JoinWords(_)
JoinWords(words) ==
    IF words = <<>> THEN <<>>
    ELSE IF Len(words) = 1 THEN words[1]
    ELSE words[1] \o <<" ">> \o JoinWords(Tail(words))

\* line.splitn(n, char::is_whitespace).filter(|s| !s.is_empty()).collect():
\* the first n-1 words and the rest of the line as one part
SplitN(line, n) ==
    IF Len(line) <= n THEN line
    ELSE SubSeq(line, 1, n - 1) \o <<JoinWords(SubSeq(line, n, Len(line)))>>

\* line.starts_with(text) for a text without blank
LineStartsWith(line, text) == line # <<>> /\ StartsWith(line[1], text)

\* line.starts_with("<word> "): the word, then a blank
LineStartsWithWord(line, word) == Len(line) >= 2 /\ line[1] = word

EqIgnoreAsciiCase(a, b) ==
    /\ Len(a) = Len(b)
    /\ \A i \in 1..Len(a) : ToLowerChar(a[i]) = ToLowerChar(b[i])

\* str::parse::<u16>(): an optional plus sign, then digits only
ParseU16Text(s) ==
    LET digits == IF s # <<>> /\ Head(s) = "+" THEN Tail(s) ELSE s
    IN  IF digits # <<>> /\ \A i \in 1..Len(digits) : IsAsciiDigit(digits[i])
        THEN ParseU16(digits)
        ELSE None

\* parse_redirect_directive, lines 609-616: the status and the (0-based)
\* index of the `from` word
StatusAndFrom(word) ==
    IF word \in {<<"p", "e", "r", "m", "a", "n", "e", "n", "t">>, <<"3", "0", "1">>} THEN [status |-> 301, from_idx |-> 2]
    ELSE IF word \in {<<"t", "e", "m", "p">>, <<"3", "0", "2">>} THEN [status |-> 302, from_idx |-> 2]
    ELSE IF word \in {<<"s", "e", "e", "o", "t", "h", "e", "r">>, <<"3", "0", "3">>} THEN [status |-> 303, from_idx |-> 2]
    ELSE IF word \in {<<"g", "o", "n", "e">>, <<"4", "1", "0">>} THEN [status |-> 410, from_idx |-> 2]
    ELSE IF ParseU16Text(word).some THEN [status |-> ParseU16Text(word).v, from_idx |-> 2]
    ELSE [status |-> 302, from_idx |-> 1]

RedirectRule(status, from, to, is_regex) ==
    [status |-> status, from |-> from, to |-> to, is_regex |-> is_regex]

\* faulty variant: a target written after a `gone` rule is kept
parse_redirect_directiveKeepingTarget(parts, is_regex) ==
    IF Len(parts) < 3 THEN None
    ELSE LET sf == StatusAndFrom(parts[2])
         IN  IF Len(parts) > sf.from_idx + 1
             THEN Some(RedirectRule(sf.status, parts[sf.from_idx + 1],
                                    Some(parts[sf.from_idx + 2]), is_regex))
             ELSE IF sf.status = 410
                  THEN Some(RedirectRule(sf.status, parts[sf.from_idx + 1], None, is_regex))
                  ELSE None

\* parse_redirect_directive on line.split_whitespace()
parse_redirect_directive(parts, is_regex) ==
    IF Len(parts) < 3 THEN None
    ELSE LET sf == StatusAndFrom(parts[2])
         IN  IF Len(parts) <= sf.from_idx THEN None
             ELSE IF sf.status = 410
                  THEN Some(RedirectRule(sf.status, parts[sf.from_idx + 1], None, is_regex))
                  ELSE IF Len(parts) > sf.from_idx + 1
                       THEN Some(RedirectRule(sf.status, parts[sf.from_idx + 1],
                                              Some(parts[sf.from_idx + 2]), is_regex))
                       ELSE None

\* Vec::push of an Option's content, nothing for None
PushSome(vec, opt) == IF opt.some THEN Append(vec, opt.v) ELSE vec

\* the shorthand directives: `<word> URL-path URL` with a fixed status
ShorthandRedirect(line, status) ==
    LET parts == SplitN(line, 3)
    IN  IF Len(parts) >= 3
        THEN Some(RedirectRule(status, parts[2], Some(parts[3]), FALSE))
        ELSE None

\* parse_htaccess_content, lines 258-265
NewHtaccess ==
    [config |-> [rewrite_engine |-> FALSE, rewrite_base |-> <<"/">>,
                 rewrite_rules |-> <<>>, redirects |-> <<>>],
     pending_conditions |-> <<>>]

\* lines 298-321: a line that starts with `Redirect`
HtaccessRedirects(redirects, line) ==
    IF LineStartsWith(line, <<"R", "e", "d", "i", "r", "e", "c", "t", "M", "a", "t", "c", "h">>)
    THEN PushSome(redirects, parse_redirect_directive(line, TRUE))
    ELSE IF LineStartsWith(line, <<"R", "e", "d", "i", "r", "e", "c", "t", "P", "e", "r", "m", "a", "n", "e", "n", "t">>)
    THEN PushSome(redirects, ShorthandRedirect(line, 301))
    ELSE IF LineStartsWithWord(line, <<"R", "e", "d", "i", "r", "e", "c", "t">>)
    THEN PushSome(redirects, parse_redirect_directive(line, FALSE))
    ELSE redirects

\* lines 267-322: the body of `for line in content.lines()`
HtaccessLine(st, line) ==
    IF line = <<>> \/ StartsWith(line[1], <<"#">>) THEN st
    ELSE IF LineStartsWith(line, <<"<", "I", "f", "M", "o", "d", "u", "l", "e">>) \/ LineStartsWith(line, <<"<", "/", "I", "f", "M", "o", "d", "u", "l", "e">>) THEN st
    ELSE IF EqIgnoreAsciiCase(JoinWords(line), <<"R", "e", "w", "r", "i", "t", "e", "E", "n", "g", "i", "n", "e", " ", "O", "n">>)
    THEN [st EXCEPT !.config.rewrite_engine = TRUE]
    ELSE IF EqIgnoreAsciiCase(JoinWords(line), <<"R", "e", "w", "r", "i", "t", "e", "E", "n", "g", "i", "n", "e", " ", "O", "f", "f">>)
    THEN [st EXCEPT !.config.rewrite_engine = FALSE]
    ELSE IF LineStartsWith(line, <<"R", "e", "w", "r", "i", "t", "e", "B", "a", "s", "e">>)
    THEN IF Len(line) >= 2 THEN [st EXCEPT !.config.rewrite_base = line[2]] ELSE st
    ELSE IF LineStartsWith(line, <<"R", "e", "w", "r", "i", "t", "e", "C", "o", "n", "d">>)
    THEN [st EXCEPT !.pending_conditions =
                        PushSome(st.pending_conditions, parse_rewrite_cond(SplitN(line, 4)))]
    ELSE IF LineStartsWith(line, <<"R", "e", "w", "r", "i", "t", "e", "R", "u", "l", "e">>)
    THEN LET rule == parse_rewrite_rule(SplitN(line, 4))
         IN  IF rule.some
             THEN [st EXCEPT !.config.rewrite_rules =
                                Append(st.config.rewrite_rules,
                                       [rule.v EXCEPT !.conditions = st.pending_conditions]),
                             !.pending_conditions = <<>>]
             ELSE st
    ELSE IF LineStartsWith(line, <<"R", "e", "d", "i", "r", "e", "c", "t">>)
    THEN [st EXCEPT !.config.redirects = HtaccessRedirects(st.config.redirects, line)]
    ELSE st

\* parse_apache_file, lines 553-591: a redirect directive inside a
\* <VirtualHost> block, on vhost.redirects
VHostLine(redirects, line) ==
    IF LineStartsWith(line, <<"R", "e", "d", "i", "r", "e", "c", "t", "M", "a", "t", "c", "h">>)
    THEN PushSome(redirects, parse_redirect_directive(line, TRUE))
    ELSE IF LineStartsWith(line, <<"R", "e", "d", "i", "r", "e", "c", "t", "P", "e", "r", "m", "a", "n", "e", "n", "t">>)
    THEN PushSome(redirects, ShorthandRedirect(line, 301))
    ELSE IF LineStartsWith(line, <<"R", "e", "d", "i", "r", "e", "c", "t", "T", "e", "m", "p">>)
    THEN PushSome(redirects, ShorthandRedirect(line, 302))
    ELSE IF LineStartsWith(line, <<"R", "e", "d", "i", "r", "e", "c", "t">>) /\ ~LineStartsWithWord(line, <<"R", "e", "d", "i", "r", "e", "c", "t">>)
    THEN redirects
    ELSE IF LineStartsWithWord(line, <<"R", "e", "d", "i", "r", "e", "c", "t">>)
    THEN PushSome(redirects, parse_redirect_directive(line, FALSE))
    ELSE redirects

(* ------------------------------------------------------------------ *)
(* The parsers as a state machine, one step per line                   *)
(* ------------------------------------------------------------------ *)
MaxLines == 3

\* the lines a rewrite file or a <VirtualHost> block is made of
FileLines ==
    { <<<<"R", "e", "w", "r", "i", "t", "e", "E", "n", "g", "i", "n", "e">>, <<"O", "n">>>>,
      <<<<"R", "e", "w", "r", "i", "t", "e", "C", "o", "n", "d">>, <<"%{REQUEST_URI}">>, <<"^", "/", "b">>>>,
      <<<<"R", "e", "w", "r", "i", "t", "e", "C", "o", "n", "d">>, <<"%{REQUEST_FILENAME}">>, <<"!", "-", "f">>, <<"[", "O", "R", "]">>>>,
      <<<<"R", "e", "w", "r", "i", "t", "e", "C", "o", "n", "d">>, <<"%{REQUEST_URI}">>>>,
      <<<<"R", "e", "w", "r", "i", "t", "e", "R", "u", "l", "e">>, <<"^", "a", "$">>, <<"/", "b">>>>,
      <<<<"R", "e", "w", "r", "i", "t", "e", "R", "u", "l", "e">>, <<"^", "b", "$">>, <<"/", "c">>, <<"[", "L", "]">>>>,
      <<<<"R", "e", "w", "r", "i", "t", "e", "R", "u", "l", "e">>, <<"^", "b", "$">>>>,
      <<<<"R", "e", "d", "i", "r", "e", "c", "t">>, <<"/", "a">>, <<"/", "b">>>>,
      <<<<"R", "e", "d", "i", "r", "e", "c", "t">>, <<"g", "o", "n", "e">>, <<"/", "g">>>>,
      <<<<"R", "e", "d", "i", "r", "e", "c", "t", "M", "a", "t", "c", "h">>, <<"3", "0", "1">>, <<"^", "/", "m", "(", ".", "*", ")", "$">>, <<"/", "n", "$", "1">>>>,
      <<<<"R", "e", "d", "i", "r", "e", "c", "t", "P", "e", "r", "m", "a", "n", "e", "n", "t">>, <<"/", "p">>, <<"/", "q">>>>,
      <<<<"R", "e", "d", "i", "r", "e", "c", "t", "T", "e", "m", "p">>, <<"/", "t">>, <<"/", "u">>>>,
      <<<<"R", "e", "d", "i", "r", "e", "c", "t">>, <<"/", "o", "n", "l", "y">>>> }

\* the Redirect directives a single rule is parsed from
RedirectLines ==
    { <<<<"R", "e", "d", "i", "r", "e", "c", "t">>, <<"/", "a">>, <<"/", "b">>>>,
      <<<<"R", "e", "d", "i", "r", "e", "c", "t">>, <<"/">>, <<"/", "r">>>>,
      <<<<"R", "e", "d", "i", "r", "e", "c", "t">>, <<"/", "a", "/">>, <<"/", "c", "/">>>>,
      <<<<"R", "e", "d", "i", "r", "e", "c", "t">>, <<"p", "e", "r", "m", "a", "n", "e", "n", "t">>, <<"/", "a">>, <<"/", "b">>>>,
      <<<<"R", "e", "d", "i", "r", "e", "c", "t">>, <<"3", "0", "7">>, <<"/", "a">>, <<"/", "b">>>>,
      <<<<"R", "e", "d", "i", "r", "e", "c", "t">>, <<"g", "o", "n", "e">>, <<"/", "g">>>>,
      <<<<"R", "e", "d", "i", "r", "e", "c", "t">>, <<"4", "1", "0">>, <<"/", "g">>, <<"/", "x">>>>,
      <<<<"R", "e", "d", "i", "r", "e", "c", "t">>, <<"4", "5", "1">>, <<"/", "a">>>>,
      <<<<"R", "e", "d", "i", "r", "e", "c", "t">>, <<"2", "0", "0">>, <<"/", "a">>, <<"/", "b">>>>,
      <<<<"R", "e", "d", "i", "r", "e", "c", "t", "M", "a", "t", "c", "h">>, <<"^", "/", "m", "(", ".", "*", ")", "$">>, <<"/", "n", "$", "1">>>>,
      <<<<"R", "e", "d", "i", "r", "e", "c", "t", "M", "a", "t", "c", "h">>, <<"g", "o", "n", "e">>, <<"^", "/", "g">>>>,
      <<<<"R", "e", "d", "i", "r", "e", "c", "t", "P", "e", "r", "m", "a", "n", "e", "n", "t">>, <<"/", "p">>, <<"/", "q">>>>,
      <<<<"R", "e", "d", "i", "r", "e", "c", "t", "T", "e", "m", "p">>, <<"/", "t">>, <<"/", "u">>>> }

\* the request paths a parsed rule is tried on
ProbePaths ==
    {<<"/">>, <<"/", "a">>, <<"/", "a", "/", "c">>, <<"/", "a", "b">>, <<"/", "x">>, <<"/", "g">>, <<"/", "g", "/", "h">>, <<"/", "m", "a">>, <<"/", "p">>, <<"/", "t", "/", "v">>}

ParserAt(kind, lines) ==
    [pc |-> "lines", kind |-> kind, lines |-> lines, pos |-> 1,
     config |-> NewHtaccess.config, pending_conditions |-> NewHtaccess.pending_conditions,
     rule_lines |-> <<>>, vhost_redirects |-> <<>>, probe |-> None]

ParserRestOff ==
    /\ files = CHOOSE f \in RewriteFileSystems : TRUE
    /\ ServerOff
    /\ RewriteOff
    /\ ec = IdleEc
    /\ php = IdlePhp
    /\ FilesOff

\* parse_htaccess_content on a file, parse_apache_file inside a block
InitParser ==
    /\ ParserRestOff
    /\ \E kind \in {"htaccess", "vhost"}, lines \in SeqsUpTo(FileLines, MaxLines) :
          parser = ParserAt(kind, lines)

ParserFrame == UNCHANGED <<files, server_vars, rewrite_vars, ec, php, apache, cgi>>

\* apache.rs 267-322: one line of a rewrite file
HtaccessStep ==
    /\ parser.pc = "lines"
    /\ parser.kind = "htaccess"
    /\ parser.pos <= Len(parser.lines)
    /\ LET st == HtaccessLine([config |-> parser.config,
                               pending_conditions |-> parser.pending_conditions],
                              parser.lines[parser.pos])
       IN  parser' = [parser EXCEPT
                         !.config = st.config,
                         !.pending_conditions = st.pending_conditions,
                         !.rule_lines =
                             IF Len(st.config.rewrite_rules) > Len(parser.config.rewrite_rules)
                             THEN Append(parser.rule_lines, parser.pos)
                             ELSE parser.rule_lines,
                         !.pos = parser.pos + 1]
    /\ ParserFrame

\* apache.rs 519-592: one line inside a <VirtualHost> block
VHostStep ==
    /\ parser.pc = "lines"
    /\ parser.kind = "vhost"
    /\ parser.pos <= Len(parser.lines)
    /\ parser' = [parser EXCEPT
                     !.vhost_redirects = VHostLine(parser.vhost_redirects,
                                                   parser.lines[parser.pos]),
                     !.pos = parser.pos + 1]
    /\ ParserFrame

\* the end of the file: the config is returned
ParseEnd ==
    /\ parser.pc = "lines"
    /\ parser.pos > Len(parser.lines)
    /\ parser' = [parser EXCEPT !.pc = "done"]
    /\ ParserFrame

NextParser ==
    \/ HtaccessStep
    \/ VHostStep
    \/ ParseEnd

SpecParser == InitParser /\ [][NextParser]_vars

\* one Redirect directive is parsed and the rule it gives is tried on a path
InitRedirect ==
    /\ ParserRestOff
    /\ \E kind \in {"htaccess", "vhost"}, line \in RedirectLines :
          parser = ParserAt(kind, <<line>>)

\* the redirect list the parser produced
ParsedRedirects ==
    IF parser.kind = "htaccess" THEN parser.config.redirects ELSE parser.vhost_redirects

\* RedirectRule::matches on a parsed rule
Probe ==
    /\ parser.pc = "done"
    /\ \E i \in 1..Len(ParsedRedirects), path \in ProbePaths :
          parser' = [parser EXCEPT
                        !.pc = "probed",
                        !.probe = Some([rule |-> ParsedRedirects[i], path |-> path,
                                        result |-> matches(ParsedRedirects[i], path)])]
    /\ ParserFrame

NextRedirect ==
    \/ HtaccessStep
    \/ VHostStep
    \/ ParseEnd
    \/ Probe

SpecRedirect == InitRedirect /\ [][NextRedirect]_vars

(* ------------------------------------------------------------------ *)
(* Properties of the parsers (specifications SpecParser, SpecRedirect) *)
(* ------------------------------------------------------------------ *)
\* the last RewriteRule line above line j, well-formed or not (0: none)
PrevRuleLine(j) ==
    LET above == {p \in 1..(j - 1) : LineStartsWith(parser.lines[p], <<"R", "e", "w", "r", "i", "t", "e", "R", "u", "l", "e">>)}
    IN  IF above = {} THEN 0 ELSE CHOOSE p \in above : \A r \in above : r <= p

\* the conditions of the well-formed RewriteCond lines lo..hi, in source order
RECURSIVE CondsBetween(_, _)
CondsBetween(lo, hi) ==
    IF lo > hi THEN <<>>
    ELSE CondsBetween(lo, hi - 1) \o
         (IF LineStartsWith(parser.lines[hi], <<"R", "e", "w", "r", "i", "t", "e", "C", "o", "n", "d">>)
             /\ parse_rewrite_cond(SplitN(parser.lines[hi], 4)).some
          THEN <<parse_rewrite_cond(SplitN(parser.lines[hi], 4)).v>>
          ELSE <<>>)

\* C12: each parsed RewriteRule's condition list is exactly the RewriteCond
\* lines that stand between the preceding RewriteRule line (or the file
\* start) and the rule's own line, in source order, also when that
\* preceding RewriteRule line is malformed and dropped: no condition
\* written for one rule is attached to another.
C12_ConditionsOfOwnBlock ==
    parser.kind = "htaccess" =>
       \A k \in 1..Len(parser.config.rewrite_rules) :
          parser.config.rewrite_rules[k].conditions =
             CondsBetween(PrevRuleLine(parser.rule_lines[k]) + 1, parser.rule_lines[k] - 1)

\* the rule a well-formed Redirect, RedirectMatch, RedirectPermanent or
\* RedirectTemp line stands for
DirectiveRule(line) ==
    IF line = <<>> THEN None
    ELSE IF line[1] = <<"R", "e", "d", "i", "r", "e", "c", "t", "P", "e", "r", "m", "a", "n", "e", "n", "t">>
    THEN IF Len(line) >= 3 THEN Some(RedirectRule(301, line[2], Some(line[3]), FALSE)) ELSE None
    ELSE IF line[1] = <<"R", "e", "d", "i", "r", "e", "c", "t", "T", "e", "m", "p">>
    THEN IF Len(line) >= 3 THEN Some(RedirectRule(302, line[2], Some(line[3]), FALSE)) ELSE None
    ELSE IF line[1] = <<"R", "e", "d", "i", "r", "e", "c", "t">> THEN parse_redirect_directive(line, FALSE)
    ELSE IF line[1] = <<"R", "e", "d", "i", "r", "e", "c", "t", "M", "a", "t", "c", "h">> THEN parse_redirect_directive(line, TRUE)
    ELSE None

RECURSIVE DirectiveRules(_)
DirectiveRules(n) ==
    IF n = 0 THEN <<>>
    ELSE DirectiveRules(n - 1) \o
         (IF DirectiveRule(parser.lines[n]).some
          THEN <<DirectiveRule(parser.lines[n]).v>> ELSE <<>>)

\* C20: parse_htaccess_content appends one RedirectRule to `redirects`, in
\* source order, for each well-formed Redirect, RedirectMatch,
\* RedirectPermanent and RedirectTemp line: 301 for RedirectPermanent, 302
\* for RedirectTemp, the given status or 302 for the other two, is_regex
\* only for RedirectMatch.
C20_HtaccessRedirects ==
    (parser.kind = "htaccess" /\ parser.pc = "done") =>
       parser.config.redirects = DirectiveRules(Len(parser.lines))

\* the path equals `from` or continues it at a path-segment boundary
AtSegmentBoundary(from, path) ==
    \/ path = from
    \/ /\ StartsWith(path, from)
       /\ Len(path) > Len(from)
       /\ from # <<>>
       /\ (from[Len(from)] = "/" \/ path[Len(from) + 1] = "/")

\* C14: a literal RedirectRule matches a path exactly when the path equals
\* `from` or continues `from` at a path-segment boundary, and then yields
\* `to` followed by the part of the path after `from`; for every `from`,
\* `/` and values ending with a slash included.
C14_LiteralPrefixMatch ==
    (parser.probe.some /\ ~parser.probe.v.rule.is_regex /\ parser.probe.v.rule.to.some) =>
       LET rule == parser.probe.v.rule
           path == parser.probe.v.path
       IN  parser.probe.v.result =
              IF AtSegmentBoundary(rule.from, path)
              THEN Some([status |-> rule.status,
                         target |-> Some(rule.to.v \o Drop(path, Len(rule.from)))])
              ELSE None

\* the path matches the `from` of a rule: as a regex, or as a literal
\* followed by nothing or by a slash
MatchesFrom(rule, path) ==
    IF rule.is_regex
    THEN RegexNew(rule.from).some /\ IsMatch(RegexNew(rule.from).v, path)
    ELSE path = rule.from \/ StartsWith(path, rule.from \o <<"/">>)

\* C15: every RedirectRule the configuration parsers produce has its target
\* absent if and only if its status is 410, and matches on a rule without
\* target returns the status and no target for every path that matches
\* `from`, and nothing for the other paths.
C15_GoneHasNoTarget ==
    /\ \A i \in 1..Len(ParsedRedirects) :
          (ParsedRedirects[i].to = None) <=> (ParsedRedirects[i].status = 410)
    /\ (parser.probe.some /\ parser.probe.v.rule.to = None) =>
          parser.probe.v.result =
             IF MatchesFrom(parser.probe.v.rule, parser.probe.v.path)
             THEN Some([status |-> parser.probe.v.rule.status, target |-> None])
             ELSE None

\* C15 witness: `Redirect 410 /g /x` gave a rule without target, and the
\* path /g/h matched it with status 410 and no target
C15_Witness ==
    /\ parser.pc = "probed"
    /\ parser.lines = <<<<<<"R", "e", "d", "i", "r", "e", "c", "t">>, <<"4", "1", "0">>, <<"/", "g">>, <<"/", "x">>>>>>
    /\ parser.probe.v.rule = RedirectRule(410, <<"/", "g">>, None, FALSE)
    /\ parser.probe.v.path = <<"/", "g", "/", "h">>
    /\ parser.probe.v.result = Some([status |-> 410, target |-> None])

(* ------------------------------------------------------------------ *)
(* main.rs: parse_php_response                                         *)
(*                                                                     *)
(* The backend output is a sequence of bytes: characters, the carriage *)
(* return CR, the line feed LF and OpaqueByte, a byte that is not      *)
(* valid UTF-8.                                                        *)
(* ------------------------------------------------------------------ *)
CR == "CR"

LF == "LF"

\* char::is_whitespace, within the bytes of this model
IsWhitespace(c) == c \in {" ", CR, LF}

RECURSIVE TrimStart(_)
TrimStart(s) == IF s # <<>> /\ IsWhitespace(Head(s)) THEN TrimStart(Tail(s)) ELSE s

RECURSIVE TrimEnd(_)
TrimEnd(s) ==
    IF s # <<>> /\ IsWhitespace(s[Len(s)]) THEN TrimEnd(SubSeq(s, 1, Len(s) - 1)) ELSE s

\* str::trim
Trim(s) == TrimEnd(TrimStart(s))

\* str::split(sep): the pieces between the occurrences of sep
RECURSIVE SplitOn(_, _)
SplitOn(s, sep) ==
    LET at == Find(s, sep)
    IN  IF at = 0 THEN <<s>>
        ELSE <<SubSeq(s, 1, at - 1)>> \o SplitOn(Drop(s, at + Len(sep) - 1), sep)

\* str::split_once(c)
SplitOnce(s, c) ==
    LET at == Find(s, <<c>>)
    IN  IF at = 0 THEN None
        ELSE Some([key |-> SubSeq(s, 1, at - 1), value |-> Drop(s, at)])

\* str::split_whitespace().next()
RECURSIVE TakeWord(_)
TakeWord(s) ==
    IF s = <<>> \/ IsWhitespace(Head(s)) THEN <<>> ELSE <<Head(s)>> \o TakeWord(Tail(s))

FirstWord(s) ==
    IF TrimStart(s) = <<>> THEN None ELSE Some(TakeWord(TrimStart(s)))

\* std::str::from_utf8(..).is_ok()
IsUtf8(bytes) == \A i \in 1..Len(bytes) : bytes[i] # OpaqueByte

\* StatusCode::from_u16: the codes 100..=999
StatusFromU16(code) == IF code >= 100 /\ code <= 999 THEN Some(code) ELSE None

\* HeaderName::from_bytes: a non-empty run of token characters, stored in
\* lower case
IsTokenChar(c) ==
    \/ \E i \in 1..Len(LowerCaseLetters) : c = LowerCaseLetters[i] \/ c = UpperCaseLetters[i]
    \/ IsAsciiDigit(c)
    \/ c \in {"-", "_", ".", "!", "#", "$", "%", "&", "*", "+", "^", "|", "~"}

HeaderNameFromBytes(key) ==
    IF key # <<>> /\ \A i \in 1..Len(key) : IsTokenChar(key[i])
    THEN Some([i \in 1..Len(key) |-> ToLowerChar(key[i])])
    ELSE None

\* HeaderValue::from_str: visible ASCII only
HeaderValueFromStr(value) ==
    IF \A i \in 1..Len(value) : value[i] \notin {CR, LF, OpaqueByte}
    THEN Some(value) ELSE None

\* lines 603-621: one line of the header block, on (status_code, headers)
HeaderLine(acc, line) ==
    LET kv == SplitOnce(line, ":")
    IN  IF ~kv.some THEN acc
        ELSE LET key == Trim(kv.v.key)
                 value == Trim(kv.v.value)
             IN  IF EqIgnoreAsciiCase(key, <<"S", "t", "a", "t", "u", "s">>)
                 THEN LET code_str == FirstWord(value)
                          code == IF code_str.some THEN ParseU16Text(code_str.v) ELSE None
                          s == IF code.some THEN StatusFromU16(code.v) ELSE None
                      IN  IF s.some THEN [acc EXCEPT !.status_code = s.v] ELSE acc
                 ELSE LET hname == HeaderNameFromBytes(key)
                          hval == HeaderValueFromStr(value)
                      IN  IF hname.some /\ hval.some
                          THEN [acc EXCEPT !.headers = Insert(acc.headers, hname.v, hval.v)]
                          ELSE acc

RECURSIVE HeaderLines(_, _)
HeaderLines(acc, lines) ==
    IF lines = <<>> THEN acc ELSE HeaderLines(HeaderLine(acc, Head(lines)), Tail(lines))

\* line 595: stdout.windows(4).position(..), 1-based, 0 for None
SeparatorAt(stdout) == Find(stdout, <<CR, LF, CR, LF>>)

\* lines 591-630
parse_php_response(stdout) ==
    LET idx == SeparatorAt(stdout)
        start == [status_code |-> 200, headers |-> EmptyMap]
    IN  IF idx # 0
        THEN LET header_part == SubSeq(stdout, 1, idx - 1)
                 body_part == Drop(stdout, idx + 3)
                 acc == IF IsUtf8(header_part)
                        THEN HeaderLines(start, SplitOn(header_part, <<CR, LF>>))
                        ELSE start
             IN  [status |-> acc.status_code, headers |-> acc.headers, body |-> body_part]
        ELSE [status |-> 200, headers |-> EmptyMap, body |-> stdout]

(* ------------------------------------------------------------------ *)
(* main.rs: the variables handed to the backend                        *)
(* ------------------------------------------------------------------ *)
\* format!("HTTP_{}", name.as_str().replace('-', "_").to_uppercase())
HttpKey(name) == <<"H", "T", "T", "P", "_">> \o ToUppercase(Replace(name, <<"-">>, <<"_">>))

\* lines 448-459: the loop over req.headers() of handle_php_cgi
RECURSIVE CgiHeaders(_, _)
CgiHeaders(env, headers) ==
    IF headers = <<>> THEN env
    ELSE LET name == Head(headers).name
             val == HeaderToStr(Head(headers).value)
             e1 == IF val.some THEN Insert(env, HttpKey(name), val.v) ELSE env
             e2 == IF name = <<"c", "o", "n", "t", "e", "n", "t", "-", "t", "y", "p", "e">> /\ val.some
                   THEN Insert(e1, <<"C", "O", "N", "T", "E", "N", "T", "_", "T", "Y", "P", "E">>, val.v) ELSE e1
             e3 == IF name = <<"c", "o", "n", "t", "e", "n", "t", "-", "l", "e", "n", "g", "t", "h">> /\ val.some
                   THEN Insert(e2, <<"C", "O", "N", "T", "E", "N", "T", "_", "L", "E", "N", "G", "T", "H">>, val.v) ELSE e2
         IN  CgiHeaders(e3, Tail(headers))

\* lines 436-459: the environment handle_php_cgi sets on the command
CgiEnv(req, script_filename) ==
    LET e1 == Insert(EmptyMap, <<"R", "E", "D", "I", "R", "E", "C", "T", "_", "S", "T", "A", "T", "U", "S">>, <<"2", "0", "0">>)
        e2 == Insert(e1, <<"S", "C", "R", "I", "P", "T", "_", "F", "I", "L", "E", "N", "A", "M", "E">>, script_filename)
        e3 == Insert(e2, <<"S", "C", "R", "I", "P", "T", "_", "N", "A", "M", "E">>, req.path)
        e4 == Insert(e3, <<"R", "E", "Q", "U", "E", "S", "T", "_", "M", "E", "T", "H", "O", "D">>, req.method)
        e5 == Insert(e4, <<"S", "E", "R", "V", "E", "R", "_", "S", "O", "F", "T", "W", "A", "R", "E">>, <<"w", "o", "l", "f", "s", "e", "r", "v", "e", "/", "0", ".", "1", ".", "0">>)
        e6 == Insert(e5, <<"R", "E", "M", "O", "T", "E", "_", "A", "D", "D", "R">>, <<"1", "2", "7", ".", "0", ".", "0", ".", "1">>)
        e7 == Insert(e6, <<"S", "E", "R", "V", "E", "R", "_", "P", "R", "O", "T", "O", "C", "O", "L">>, <<"H", "T", "T", "P", "/", "1", ".", "1">>)
        e8 == IF req.query.some THEN Insert(e7, <<"Q", "U", "E", "R", "Y", "_", "S", "T", "R", "I", "N", "G">>, req.query.v) ELSE e7
    IN  CgiHeaders(e8, req.headers)

\* lines 545-550: the loop over parts.headers of handle_php_fpm
RECURSIVE FpmHeaders(_, _)
FpmHeaders(params, headers) ==
    IF headers = <<>> THEN params
    ELSE LET val == HeaderToStr(Head(headers).value)
         IN  FpmHeaders(IF val.some
                        THEN Insert(params, HttpKey(Head(headers).name), val.v)
                        ELSE params,
                        Tail(headers))

\* HeaderMap::get: the first value stored under a name
HeaderGet(headers, name) ==
    LET at == {i \in 1..Len(headers) : headers[i].name = name}
    IN  IF at = {} THEN None
        ELSE Some(headers[CHOOSE i \in at : \A j \in at : i <= j].value)

\* lines 553-562
FpmContentHeader(params, headers, name, key) ==
    LET h == HeaderGet(headers, name)
    IN  IF h.some /\ HeaderToStr(h.v).some THEN Insert(params, key, HeaderToStr(h.v).v)
        ELSE params

\* lines 535-562: the FastCGI params of handle_php_fpm
FpmParams(req, script_filename) ==
    LET p1 == Insert(EmptyMap, <<"R", "E", "Q", "U", "E", "S", "T", "_", "M", "E", "T", "H", "O", "D">>, req.method)
        p2 == Insert(p1, <<"S", "C", "R", "I", "P", "T", "_", "F", "I", "L", "E", "N", "A", "M", "E">>, script_filename)
        p3 == Insert(p2, <<"S", "C", "R", "I", "P", "T", "_", "N", "A", "M", "E">>, req.path)
        p4 == Insert(p3, <<"Q", "U", "E", "R", "Y", "_", "S", "T", "R", "I", "N", "G">>, IF req.query.some THEN req.query.v ELSE <<>>)
        p5 == Insert(p4, <<"S", "E", "R", "V", "E", "R", "_", "S", "O", "F", "T", "W", "A", "R", "E">>, <<"w", "o", "l", "f", "s", "e", "r", "v", "e", "/", "0", ".", "1", ".", "0">>)
        p6 == Insert(p5, <<"R", "E", "M", "O", "T", "E", "_", "A", "D", "D", "R">>, <<"1", "2", "7", ".", "0", ".", "0", ".", "1">>)
        p7 == Insert(p6, <<"S", "E", "R", "V", "E", "R", "_", "P", "R", "O", "T", "O", "C", "O", "L">>, <<"H", "T", "T", "P", "/", "1", ".", "1">>)
        p8 == FpmHeaders(p7, req.headers)
        p9 == FpmContentHeader(p8, req.headers, <<"c", "o", "n", "t", "e", "n", "t", "-", "t", "y", "p", "e">>, <<"C", "O", "N", "T", "E", "N", "T", "_", "T", "Y", "P", "E">>)
    IN  FpmContentHeader(p9, req.headers, <<"c", "o", "n", "t", "e", "n", "t", "-", "l", "e", "n", "g", "t", "h">>, <<"C", "O", "N", "T", "E", "N", "T", "_", "L", "E", "N", "G", "T", "H">>)

\* std::fs::canonicalize of a path that is already canonical
Canonicalize(fs, path) == IF PathExists(fs, path) THEN Some(path) ELSE None

(* ------------------------------------------------------------------ *)
(* Inputs of handle_php                                                *)
(* ------------------------------------------------------------------ *)
\* line 501: Duration::from_secs(2)
FpmConnectTimeout == 2

\* how long the clock of a connection attempt is followed
MaxTicks == 3

PhpModes == {"cgi", "fpm"}

FpmAddresses == {None, Some(<<"h", ":", "9", "0", "0", "0">>), Some(<<"u", "n", "i", "x", ":", "/", "s">>)}

Header(name, value) == [name |-> name, value |-> value]

HeaderSets ==
    { <<>>,
      <<Header(<<"c", "o", "n", "t", "e", "n", "t", "-", "t", "y", "p", "e">>, <<"t", "/", "p">>), Header(<<"c", "o", "n", "t", "e", "n", "t", "-", "l", "e", "n", "g", "t", "h">>, <<"4">>)>>,
      <<Header(<<"x", "-", "a">>, <<OpaqueByte>>), Header(<<"a", "c", "c", "e", "p", "t", "-", "l", "a", "n", "g", "u", "a", "g", "e">>, <<"e", "n">>)>>,
      <<Header(<<"c", "o", "n", "t", "e", "n", "t", "-", "t", "y", "p", "e">>, <<"a">>), Header(<<"c", "o", "n", "t", "e", "n", "t", "-", "t", "y", "p", "e">>, <<"b">>)>> }

PhpRequests ==
    { [method |-> m, path |-> <<"/", "x", ".", "p", "h", "p">>, query |-> qs, headers |-> h] :
        m \in {<<"G", "E", "T">>, <<"P", "O", "S", "T">>}, qs \in {None, Some(<<"q", "=", "1">>)}, h \in HeaderSets }

ScriptPath == <<"/", "w", "/", "x", ".", "p", "h", "p">>

\* the script is on disk, or it went away after handle_request saw it
GatewayFileSystems ==
    { (ScriptPath :> RegularFile), EmptyMap }

\* what the backend writes to its standard output
BackendOutputs ==
    { <<"S", "t", "a", "t", "u", "s", ":", " ", "4", "0", "4", " ", "N", "o", "t", " ", "F", "o", "u", "n", "d", CR, LF, "C", "o", "n", "t", "e", "n", "t", "-", "T", "y", "p", "e", ":", " ", "t", "e", "x", "t", "/", "p", "l", "a", "i", "n", CR, LF, CR, LF, "m", "i", "s", "s", "i", "n", "g">>,
      <<"h", "e", "l", "l", "o">>,
      <<"s", "t", "a", "t", "u", "s", ":", " ", "2", "0", "1", CR, LF, CR, LF, "o", "k", CR, LF, CR, LF, "m", "o", "r", "e">>,
      <<"S", "t", "a", "t", "u", "s", ":", " ", "a", "b", "c", CR, LF, "X", "-", "C", ":", " ", "a", LF, "b", CR, LF, CR, LF, "b">>,
      <<"S", "t", "a", "t", "u", "s", ":", " ", "9", "9", CR, LF, CR, LF, "b">>,
      <<"n", "o", " ", "c", "o", "l", "o", "n", CR, LF, "b", "a", "d", " ", "n", "a", "m", "e", ":", " ", "v", CR, LF, "X", "-", "B", ":", " ", "2", CR, LF, CR, LF, "b">>,
      <<"S", "t", "a", "t", "u", "s", ":", " ", "4", "0", "4", CR, LF, "X", "-", "A", ":", " ", OpaqueByte, CR, LF, CR, LF, "b">>,
      <<"C", "o", "n", "t", "e", "n", "t", "-", "T", "y", "p", "e", ":", " ", "t", "/", "h", CR, LF, CR, LF>>,
      <<"S", "e", "t", "-", "C", "o", "o", "k", "i", "e", ":", " ", "a", "=", "1", CR, LF, "S", "e", "t", "-", "C", "o", "o", "k", "i", "e", ":", " ", "b", "=", "2", CR, LF, CR, LF, "o", "k">> }

(* ------------------------------------------------------------------ *)
(* main.rs: handle_php as a state machine                              *)
(* ------------------------------------------------------------------ *)
ErrorResponse(status, body) == [status |-> status, headers |-> EmptyMap, body |-> body]

StreamOpen(p) == p.stream \in {"tcp", "unix"}

\* faulty variant: after a failure the handler starts over
FailAndRetry(p, response) == [p EXCEPT !.pc = "start", !.failed = TRUE]

\* an early `return` with an error response: the handler ends and what it
\* owns (the stream) is dropped
Fail(p, response) ==
    [p EXCEPT !.pc = "done", !.failed = TRUE, !.response = Some(response),
              !.stream = IF StreamOpen(p) THEN "closed" ELSE p.stream]

\* the final expression of the handler
Return(p, response) ==
    [p EXCEPT !.pc = "done", !.response = Some(response),
              !.stream = IF StreamOpen(p) THEN "closed" ELSE p.stream]

\* faulty variant: connect is awaited without a timeout
DeadlineNever(elapsed) == FALSE

\* tokio::time::timeout(fpm_connect_timeout, ..): the deadline has passed
DeadlinePassed(elapsed) == elapsed >= FpmConnectTimeout

\* lines 508-520: what the outcome of the connect attempt leads to
AfterConnect(p) ==
    CASE p.connect_result = "ok" -> [p EXCEPT !.pc = "fpm_body"]
      [] p.connect_result = "err" ->
            Fail(p, ErrorResponse(502, <<"P", "H", "P", "-", "F", "P", "M", " ", "u", "n", "r", "e", "a", "c", "h", "a", "b", "l", "e">>))
      [] p.connect_result = "elapsed" ->
            Fail(p, ErrorResponse(504, <<"P", "H", "P", "-", "F", "P", "M", " ", "c", "o", "n", "n", "e", "c", "t", " ", "t", "i", "m", "e", "d", " ", "o", "u", "t">>))

InitGateway ==
    /\ files \in GatewayFileSystems
    /\ ServerOff
    /\ RewriteOff
    /\ ec = IdleEc
    /\ parser = IdleParser
    /\ FilesOff
    /\ \E mode \in PhpModes, addr \in FpmAddresses, req \in PhpRequests :
          /\ mode = "cgi" => addr = None
          /\ php = [IdlePhp EXCEPT !.pc = "start", !.mode = mode, !.fpm_address = addr,
                                   !.request = req, !.script_path = ScriptPath]

GatewayFrame == UNCHANGED <<files, server_vars, rewrite_vars, ec, parser, apache, cgi>>

\* lines 495-498
FpmNoAddress ==
    /\ php.pc = "start"
    /\ php.mode # "cgi"
    /\ php.fpm_address = None
    /\ php' = Fail(php, ErrorResponse(500, <<"P", "H", "P", "-", "F", "P", "M", " ", "a", "d", "d", "r", "e", "s", "s", " ", "n", "o", "t", " ", "c", "o", "n", "f", "i", "g", "u", "r", "e", "d">>))
    /\ GatewayFrame

\* lines 508-515: UnixStream::connect or TcpStream::connect is started
\* under the timeout
FpmConnect ==
    /\ php.pc = "start"
    /\ php.mode # "cgi"
    /\ php.fpm_address.some
    /\ php' = [php EXCEPT !.pc = "connecting",
                          !.connections = php.connections + 1,
                          !.elapsed = 0,
                          !.connect_kind =
                              IF StripPrefix(php.fpm_address.v, <<"u", "n", "i", "x", ":">>).some
                              THEN "unix" ELSE "tcp"]
    /\ GatewayFrame

\* a second passes while the connect attempt is pending
Tick ==
    /\ php.pc = "connecting"
    /\ ~DeadlinePassed(php.elapsed)
    /\ php.elapsed < MaxTicks
    /\ php' = [php EXCEPT !.elapsed = php.elapsed + 1]
    /\ GatewayFrame

\* the backend accepts or refuses the connection
ConnectCompletes ==
    /\ php.pc = "connecting"
    /\ \E ok \in BOOLEAN :
          php' = [php EXCEPT !.pc = "connect_returned",
                             !.connect_result = IF ok THEN "ok" ELSE "err",
                             !.stream = IF ok THEN php.connect_kind ELSE php.stream]
    /\ GatewayFrame

\* the timeout fires: the pending connect is dropped
ConnectTimesOut ==
    /\ php.pc = "connecting"
    /\ DeadlinePassed(php.elapsed)
    /\ php' = [php EXCEPT !.pc = "connect_returned", !.connect_result = "elapsed"]
    /\ GatewayFrame

\* lines 509-519: the match on the outcome
FpmAfterConnect ==
    /\ php.pc = "connect_returned"
    /\ php' = AfterConnect(php)
    /\ GatewayFrame

\* lines 523-527
FpmReadBody ==
    /\ php.pc = "fpm_body"
    /\ \E ok \in BOOLEAN :
          php' = IF ok THEN [php EXCEPT !.pc = "fpm_canonicalize"]
                 ELSE Fail(php, ErrorResponse(400, <<"F", "a", "i", "l", "e", "d", " ", "t", "o", " ", "r", "e", "a", "d", " ", "b", "o", "d", "y">>))
    /\ GatewayFrame

\* lines 529-564
FpmCanonicalize ==
    /\ php.pc = "fpm_canonicalize"
    /\ LET script_filename == Canonicalize(files, php.script_path)
       IN  php' = IF script_filename.some
                  THEN [php EXCEPT !.pc = "fpm_execute",
                                   !.params = Some(FpmParams(php.request, script_filename.v))]
                  ELSE Fail(php, ErrorResponse(404, <<"S", "c", "r", "i", "p", "t", " ", "n", "o", "t", " ", "f", "o", "u", "n", "d", " ", "o", "n", " ", "d", "i", "s", "k">>))
    /\ GatewayFrame

\* lines 566-588: Client::new(stream).execute_once(request) consumes the
\* stream; the params are sent, then the answer is read and parsed
FpmExecute ==
    /\ php.pc = "fpm_execute"
    /\ LET sent == [php EXCEPT !.exchanges = php.exchanges + 1,
                               !.handed = php.params,
                               !.stream = "closed"]
       IN  \/ php' = Fail(sent, ErrorResponse(500, <<"F", "a", "s", "t", "C", "G", "I", " ", "E", "r", "r", "o", "r">>))
           \/ php' = Fail(sent, ErrorResponse(500, <<"P", "H", "P", " ", "o", "u", "t", "p", "u", "t", " ", "i", "s", " ", "e", "m", "p", "t", "y">>))
           \/ \E out \in BackendOutputs :
                 php' = Return([sent EXCEPT !.stdout = Some(out)], parse_php_response(out))
    /\ GatewayFrame

\* lines 429-459
CgiCanonicalize ==
    /\ php.pc = "start"
    /\ php.mode = "cgi"
    /\ LET script_filename == Canonicalize(files, php.script_path)
       IN  php' = IF script_filename.some
                  THEN [php EXCEPT !.pc = "cgi_spawn",
                                   !.params = Some(CgiEnv(php.request, script_filename.v))]
                  ELSE Fail(php, ErrorResponse(404, <<"S", "c", "r", "i", "p", "t", " ", "n", "o", "t", " ", "f", "o", "u", "n", "d", " ", "o", "n", " ", "d", "i", "s", "k">>))
    /\ GatewayFrame

\* lines 461-468
CgiSpawn ==
    /\ php.pc = "cgi_spawn"
    /\ LET tried == [php EXCEPT !.spawn_attempts = php.spawn_attempts + 1]
       IN  \/ php' = [tried EXCEPT !.pc = "cgi_body", !.handed = php.params]
           \/ php' = Fail(tried, ErrorResponse(500, <<"F", "a", "i", "l", "e", "d", " ", "t", "o", " ", "s", "p", "a", "w", "n", " ", "p", "h", "p", "-", "c", "g", "i">>))
    /\ GatewayFrame

\* lines 470-480
CgiReadBody ==
    /\ php.pc = "cgi_body"
    /\ \E ok \in BOOLEAN :
          php' = IF ok THEN [php EXCEPT !.pc = "cgi_wait"]
                 ELSE Fail(php, ErrorResponse(400, <<"F", "a", "i", "l", "e", "d", " ", "t", "o", " ", "r", "e", "a", "d", " ", "b", "o", "d", "y">>))
    /\ GatewayFrame

\* lines 482-491
CgiWait ==
    /\ php.pc = "cgi_wait"
    /\ LET waited == [php EXCEPT !.exchanges = php.exchanges + 1]
       IN  \/ php' = Fail(waited, ErrorResponse(500, <<"F", "a", "i", "l", "e", "d", " ", "t", "o", " ", "w", "a", "i", "t", " ", "f", "o", "r", " ", "p", "h", "p", "-", "c", "g", "i">>))
           \/ \E out \in BackendOutputs :
                 php' = Return([waited EXCEPT !.stdout = Some(out)], parse_php_response(out))
    /\ GatewayFrame

NextGateway ==
    \/ FpmNoAddress
    \/ FpmConnect
    \/ Tick
    \/ ConnectCompletes
    \/ ConnectTimesOut
    \/ FpmAfterConnect
    \/ FpmReadBody
    \/ FpmCanonicalize
    \/ FpmExecute
    \/ CgiCanonicalize
    \/ CgiSpawn
    \/ CgiReadBody
    \/ CgiWait

SpecGateway == InitGateway /\ [][NextGateway]_vars

(* ------------------------------------------------------------------ *)
(* Properties of the script gateway (specification SpecGateway)        *)
(* ------------------------------------------------------------------ *)
\* the handler returned what parse_php_response made of the backend output
ParsedOutput == php.pc = "done" /\ php.stdout.some /\ ~php.failed

HasSeparator(out) == Contains(out, <<CR, LF, CR, LF>>)

\* the lines of the header block: what stands before the first blank line
HeaderBlockLines(out) ==
    SplitOn(SubSeq(out, 1, Find(out, <<CR, LF, CR, LF>>) - 1), <<CR, LF>>)

\* the status a header line gives: it is a `Status` header (name compared
\* without case) whose leading token is a number that is a valid status code
StatusOfLine(line) ==
    LET kv == SplitOnce(line, ":")
        word == IF kv.some THEN FirstWord(Trim(kv.v.value)) ELSE None
        code == IF word.some THEN ParseU16Text(word.v) ELSE None
    IN  IF kv.some /\ EqIgnoreAsciiCase(Trim(kv.v.key), <<"S", "t", "a", "t", "u", "s">>)
           /\ code.some /\ code.v >= 100 /\ code.v <= 999
        THEN Some(code.v)
        ELSE None

StatusCodes(out) ==
    {StatusOfLine(HeaderBlockLines(out)[i]).v :
        i \in {j \in 1..Len(HeaderBlockLines(out)) : StatusOfLine(HeaderBlockLines(out)[j]).some}}

\* C16: for every backend output, if it contains CR LF CR LF the body is
\* exactly the bytes after the first occurrence and the status is the
\* leading numeric token of the Status header, or 200 when that header is
\* absent, unparsable or not a valid status code; without CR LF CR LF the
\* status is 200, no header is added and the body is the whole output; a
\* header line that cannot be used is skipped on its own.
C16_BackendOutputParsed ==
    ParsedOutput =>
       LET out == php.stdout.v
           r == php.response.v
       IN  IF HasSeparator(out)
           THEN /\ r.body = Drop(out, Find(out, <<CR, LF, CR, LF>>) + 3)
                /\ IF StatusCodes(out) # {} THEN r.status \in StatusCodes(out)
                   ELSE r.status = 200
           ELSE /\ r.status = 200
                /\ r.headers = EmptyMap
                /\ r.body = out

\* the connect attempt was answered by the handler
ConnectAnswered(result) == php.pc = "done" /\ php.connect_result = result

\* C17: a connect attempt of the persistent-backend strategy is never
\* awaited beyond the connect timeout; when the timeout passes the handler
\* answers 504, when the backend refuses it answers 502, and in both cases
\* no FastCGI request is sent; for TCP and for local-socket addresses.
C17_ConnectIsBounded ==
    /\ php.pc = "connecting" => php.elapsed <= FpmConnectTimeout
    /\ ConnectAnswered("elapsed") =>
          /\ php.response.v.status = 504
          /\ php.exchanges = 0 /\ php.handed = None
    /\ ConnectAnswered("err") =>
          /\ php.response.v.status = 502
          /\ php.exchanges = 0 /\ php.handed = None

\* C17 witness: the connect to a local socket was still pending when the
\* timeout passed, and the handler answered 504 without sending a request
C17_Witness ==
    /\ ConnectAnswered("elapsed")
    /\ php.connect_kind = "unix"
    /\ php.elapsed = FpmConnectTimeout
    /\ php.response.v.status = 504
    /\ php.exchanges = 0

\* a map without one of its keys
Without(m, k) == [x \in (DOMAIN m) \ {k} |-> m[x]]

RequiredVariables ==
    {<<"R", "E", "Q", "U", "E", "S", "T", "_", "M", "E", "T", "H", "O", "D">>, <<"S", "C", "R", "I", "P", "T", "_", "F", "I", "L", "E", "N", "A", "M", "E">>, <<"S", "C", "R", "I", "P", "T", "_", "N", "A", "M", "E">>, <<"Q", "U", "E", "R", "Y", "_", "S", "T", "R", "I", "N", "G">>,
     <<"S", "E", "R", "V", "E", "R", "_", "S", "O", "F", "T", "W", "A", "R", "E">>, <<"R", "E", "M", "O", "T", "E", "_", "A", "D", "D", "R">>, <<"S", "E", "R", "V", "E", "R", "_", "P", "R", "O", "T", "O", "C", "O", "L">>}

\* C18: for every request the two strategies hand the backend the same
\* variables with the same values (the REDIRECT_STATUS marker of the
\* spawned interpreter left aside), and what is handed over always holds
\* the required variables, CONTENT_TYPE and CONTENT_LENGTH when the request
\* has them, and one HTTP_<NAME> per decodable inbound header; requests
\* without query string included.
C18_SameVariables ==
    php.handed.some =>
       /\ Without(CgiEnv(php.request, php.script_path), <<"R", "E", "D", "I", "R", "E", "C", "T", "_", "S", "T", "A", "T", "U", "S">>)
             = FpmParams(php.request, php.script_path)
       /\ RequiredVariables \subseteq DOMAIN php.handed.v
       /\ \A i \in 1..Len(php.request.headers) :
             HeaderToStr(php.request.headers[i].value).some =>
                HttpKey(php.request.headers[i].name) \in DOMAIN php.handed.v

\* C19: a request that reaches the script gateway causes at most one
\* backend connection or spawned process and at most one request/response
\* exchange; after any backend failure the handler has returned an error
\* response and makes no second attempt; no connection outlives the
\* handler.
C19_OneAttempt ==
    /\ php.connections + php.spawn_attempts <= 1
    /\ php.exchanges <= 1
    /\ php.failed =>
          /\ php.pc = "done"
          /\ php.response.some
          /\ php.response.v.status >= 400
    /\ php.pc = "done" => ~StreamOpen(php)

\* C19 witness: the one exchange on the one connection failed, the handler
\* answered 500 and the connection is gone
C19_Witness ==
    /\ php.pc = "done"
    /\ php.failed
    /\ php.connections = 1
    /\ php.exchanges = 1
    /\ php.stream = "closed"
    /\ php.response.v.status = 500

(* ------------------------------------------------------------------ *)
(* apache.rs: parse_apache_file over the lines of a site file          *)
(* ------------------------------------------------------------------ *)
\* str::split(c).last(): the text after the last c
SplitLast(s, c) ==
    LET at == {i \in 1..Len(s) : s[i] = c}
    IN  IF at = {} THEN s ELSE Drop(s, CHOOSE i \in at : \A j \in at : j <= i)

RECURSIVE TrimEndMatches(_, _)
TrimEndMatches(s, c) ==
    IF s # <<>> /\ s[Len(s)] = c THEN TrimEndMatches(SubSeq(s, 1, Len(s) - 1), c) ELSE s

TrimMatches(s, c) == TrimEndMatches(TrimStartMatches(s, c), c)

\* lines 501-502: the port of an `addr:port>` token, 80 when it does not parse
PortOf(addr_port) ==
    LET port == ParseU16Text(TrimEndMatches(SplitLast(addr_port, ":"), ">"))
    IN  IF port.some THEN port.v ELSE 80

\* lines 504-513
NewVirtualHost(port) ==
    [port |-> port, server_name |-> None, server_aliases |-> <<>>,
     document_root |-> None, ssl_cert_file |-> None, ssl_key_file |-> None,
     ssl_chain_file |-> None, redirects |-> <<>>]

\* the configuration directory the relative certificate paths are joined to
BaseDir == <<"/", "e", "t", "c">>

\* lines 538-539: the quotes are trimmed, a relative path is joined to base_dir
ConfigPath(word) ==
    LET p == TrimMatches(word, "\"")
    IN  IF StartsWith(p, <<"/">>) THEN p ELSE Join(BaseDir, p)

\* lines 520-591: a line met while a block is open, on the open vhost
BlockLine(vhost, line) ==
    IF LineStartsWith(line, <<"S", "e", "r", "v", "e", "r", "N", "a", "m", "e">>)
    THEN IF Len(line) >= 2 THEN [vhost EXCEPT !.server_name = Some(line[2])] ELSE vhost
    ELSE IF LineStartsWith(line, <<"S", "e", "r", "v", "e", "r", "A", "l", "i", "a", "s">>)
    THEN [vhost EXCEPT !.server_aliases = vhost.server_aliases \o Tail(line)]
    ELSE IF LineStartsWith(line, <<"D", "o", "c", "u", "m", "e", "n", "t", "R", "o", "o", "t">>)
    THEN IF Len(line) >= 2
         THEN [vhost EXCEPT !.document_root = Some(TrimMatches(line[2], "\""))]
         ELSE vhost
    ELSE IF LineStartsWith(line, <<"S", "S", "L", "C", "e", "r", "t", "i", "f", "i", "c", "a", "t", "e", "F", "i", "l", "e">>)
    THEN IF Len(line) >= 2 THEN [vhost EXCEPT !.ssl_cert_file = Some(ConfigPath(line[2]))]
         ELSE vhost
    ELSE IF LineStartsWith(line, <<"S", "S", "L", "C", "e", "r", "t", "i", "f", "i", "c", "a", "t", "e", "K", "e", "y", "F", "i", "l", "e">>)
    THEN IF Len(line) >= 2 THEN [vhost EXCEPT !.ssl_key_file = Some(ConfigPath(line[2]))]
         ELSE vhost
    ELSE IF LineStartsWith(line, <<"S", "S", "L", "C", "e", "r", "t", "i", "f", "i", "c", "a", "t", "e", "C", "h", "a", "i", "n", "F", "i", "l", "e">>)
    THEN IF Len(line) >= 2 THEN [vhost EXCEPT !.ssl_chain_file = Some(ConfigPath(line[2]))]
         ELSE vhost
    ELSE [vhost EXCEPT !.redirects = VHostLine(vhost.redirects, line)]

\* lines 497-592: the body of `for line in content.lines()`
ApacheLine(st, line) ==
    IF LineStartsWith(line, <<"<", "V", "i", "r", "t", "u", "a", "l", "H", "o", "s", "t">>)
    THEN IF Len(line) >= 2
         THEN [st EXCEPT !.current_vhost = Some(NewVirtualHost(PortOf(line[2])))]
         ELSE st
    ELSE IF LineStartsWith(line, <<"<", "/", "V", "i", "r", "t", "u", "a", "l", "H", "o", "s", "t", ">">>)
    THEN IF st.current_vhost.some
         THEN [st EXCEPT !.vhosts = Append(st.vhosts, st.current_vhost.v),
                         !.current_vhost = None]
         ELSE st
    ELSE IF st.current_vhost.some
    THEN [st EXCEPT !.current_vhost = Some(BlockLine(st.current_vhost.v, line))]
    ELSE st

\* the lines a site file is made of
SiteLines ==
    { <<<<"<", "V", "i", "r", "t", "u", "a", "l", "H", "o", "s", "t">>, <<"*", ":", "8", "0", ">">>>>,
      <<<<"<", "V", "i", "r", "t", "u", "a", "l", "H", "o", "s", "t">>, <<"*", ":", "8", "4", "4", "3", ">">>>>,
      <<<<"<", "V", "i", "r", "t", "u", "a", "l", "H", "o", "s", "t">>, <<"*", ":", "h", "t", "t", "p", ">">>>>,
      <<<<"<", "V", "i", "r", "t", "u", "a", "l", "H", "o", "s", "t", ">">>>>,
      <<<<"<", "/", "V", "i", "r", "t", "u", "a", "l", "H", "o", "s", "t", ">">>>>,
      <<<<"S", "e", "r", "v", "e", "r", "N", "a", "m", "e">>, <<"a">>>>,
      <<<<"S", "e", "r", "v", "e", "r", "A", "l", "i", "a", "s">>, <<"b">>, <<"c">>>>,
      <<<<"D", "o", "c", "u", "m", "e", "n", "t", "R", "o", "o", "t">>, <<"\"", "/", "w", "/", "a", "\"">>>>,
      <<<<"S", "S", "L", "C", "e", "r", "t", "i", "f", "i", "c", "a", "t", "e", "F", "i", "l", "e">>, <<"o", "k", ".", "c", "r", "t">>>>,
      <<<<"S", "S", "L", "C", "e", "r", "t", "i", "f", "i", "c", "a", "t", "e", "K", "e", "y", "F", "i", "l", "e">>, <<"/", "c", "/", "o", "k", ".", "k", "e", "y">>>>,
      <<<<"R", "e", "d", "i", "r", "e", "c", "t">>, <<"/", "a">>, <<"/", "b">>>> }

\* line 491-492
InitApache ==
    /\ files = CHOOSE f \in RewriteFileSystems : TRUE
    /\ ServerOff
    /\ RewriteOff
    /\ ec = IdleEc
    /\ parser = IdleParser
    /\ php = IdlePhp
    /\ cgi = IdleCgi
    /\ \E lines \in SeqsUpTo(SiteLines, MaxLines) :
          apache = [pc |-> "lines", lines |-> lines, pos |-> 1, vhosts |-> <<>>,
                    current_vhost |-> None]

ApacheFrame == UNCHANGED <<files, server_vars, rewrite_vars, ec, parser, php, cgi>>

\* lines 494-593: one line of the file
ApacheStep ==
    /\ apache.pc = "lines"
    /\ apache.pos <= Len(apache.lines)
    /\ LET st == ApacheLine([vhosts |-> apache.vhosts,
                             current_vhost |-> apache.current_vhost],
                            apache.lines[apache.pos])
       IN  apache' = [apache EXCEPT !.vhosts = st.vhosts,
                                    !.current_vhost = st.current_vhost,
                                    !.pos = apache.pos + 1]
    /\ ApacheFrame

\* line 596: the end of the file, `vhosts` is returned
ApacheReturn ==
    /\ apache.pc = "lines"
    /\ apache.pos > Len(apache.lines)
    /\ apache' = [apache EXCEPT !.pc = "done"]
    /\ ApacheFrame

NextApache ==
    \/ ApacheStep
    \/ ApacheReturn

SpecApache == InitApache /\ [][NextApache]_vars

(* ------------------------------------------------------------------ *)
(* Properties of parse_apache_file (specification SpecApache)          *)
(* ------------------------------------------------------------------ *)
IsOpening(line) == LineStartsWith(line, <<"<", "V", "i", "r", "t", "u", "a", "l", "H", "o", "s", "t">>)

IsClosing(line) == LineStartsWith(line, <<"<", "/", "V", "i", "r", "t", "u", "a", "l", "H", "o", "s", "t", ">">>)

\* the positions of the opening lines of the file, in file order
Openings ==
    LET at == {i \in 1..Len(apache.lines) : IsOpening(apache.lines[i])}
        RECURSIVE Sorted(_)
        Sorted(S) == IF S = {} THEN <<>>
                     ELSE LET m == CHOOSE i \in S : \A j \in S : i <= j
                          IN  <<m>> \o Sorted(S \ {m})
    IN  Sorted(at)

\* the position of the closing line of the block opened at line o, one
\* past the end of the file when the block is never closed
ClosingOf(o) ==
    LET at == {i \in (o + 1)..Len(apache.lines) : IsClosing(apache.lines[i])}
    IN  IF at = {} THEN Len(apache.lines) + 1 ELSE CHOOSE i \in at : \A j \in at : i <= j

\* the directives of the lines lo..hi, applied to a virtual host
RECURSIVE Directives(_, _, _)
Directives(vhost, lo, hi) ==
    IF lo > hi THEN vhost
    ELSE Directives(BlockLine(vhost, apache.lines[lo]), lo + 1, hi)

\* the virtual host the block opened at line o describes: the declared
\* port (80 without a usable port) and the directives up to its closing line
BlockHost(o) ==
    LET line == apache.lines[o]
        port == IF Len(line) >= 2 THEN PortOf(line[2]) ELSE 80
    IN  Directives(NewVirtualHost(port), o + 1, ClosingOf(o) - 1)

\* C21: parse_apache_file returns exactly one VirtualHost per opening
\* line, in file order, each carrying the directives written between its
\* opening line and its closing line and none written outside it, also
\* for a block never closed, an opening line inside an open block and an
\* opening line without address token.
C21_OneHostPerBlock ==
    apache.pc = "done" =>
        /\ Len(apache.vhosts) = Len(Openings)
        /\ \A k \in 1..Len(apache.vhosts) :
              k <= Len(Openings) => apache.vhosts[k] = BlockHost(Openings[k])

(* ------------------------------------------------------------------ *)
(* The shared state after startup (specification Spec)                 *)
(* ------------------------------------------------------------------ *)
\* C22: once startup has ended, no step of a request task or of a TLS
\* handshake, in any interleaving of two concurrent request tasks and the
\* handshakes, changes the hostname table, the default virtual host or the
\* TLS registry (its table and its default pair); the process
\* configuration is a definition of this model and has no writer at all.
C22_SharedStateReadOnly ==
    [][main_pc = "serving" =>
          UNCHANGED <<vhosts_map, default_vhost, ssl_certs, default_ssl_cert, main_pc>>]_vars

\* both request tasks are past routing at once, after a handshake that
\* was answered from a non-empty registry
C22_Witness ==
    /\ main_pc = "serving"
    /\ task.pc = "serve"
    /\ peer.pc = "serve"
    /\ hello.some /\ hello.v.server_name.some /\ hello.v.cert.some
    /\ vhosts_map # EmptyMap
    /\ default_vhost.some

(* ------------------------------------------------------------------ *)
(* apply_rewrites called twice with the same rules, context and files  *)
(* (specification SpecRerun)                                           *)
(* ------------------------------------------------------------------ *)
\* the caller runs apply_rewrites again on the same HtaccessConfig and
\* RewriteContext; the outcome of the first call is remembered
Rerun ==
    /\ rw.pc = "done"
    /\ rw.calls = 1
    /\ rw' = [rw EXCEPT !.pc = "start", !.calls = 2, !.first = rw.result,
                        !.result = None, !.log = <<>>]
    /\ RewriteFrame

NextRerun ==
    \/ EngineOff
    \/ Begin
    \/ ConditionsFail
    \/ PatternInvalid
    \/ PatternNoMatch
    \/ SkipRule
    \/ AbsoluteRedirect
    \/ StatusRedirect
    \/ InternalStep
    \/ Finish
    \/ Rerun

SpecRerun == InitRewrite /\ [][NextRerun]_vars

HeaderOfLine(line) ==
    LET kv == SplitOnce(line, ":")
        key == IF kv.some THEN Trim(kv.v.key) ELSE <<>>
        value == IF kv.some THEN Trim(kv.v.value) ELSE <<>>
    IN  IF /\ kv.some
           /\ ~EqIgnoreAsciiCase(key, <<"S", "t", "a", "t", "u", "s">>)
           /\ HeaderNameFromBytes(key).some
           /\ HeaderValueFromStr(value).some
        THEN Some([name |-> HeaderNameFromBytes(key).v, value |-> value])
        ELSE None

\* the values the header block gives a name, in the order of its lines
RECURSIVE ValuesWritten(_, _)
ValuesWritten(lines, name) ==
    IF lines = <<>> THEN <<>>
    ELSE LET h == HeaderOfLine(Head(lines))
         IN  (IF h.some /\ h.v.name = name THEN <<h.v.value>> ELSE <<>>)
             \o ValuesWritten(Tail(lines), name)

\* the values the response carries for a name (HeaderMap::get_all)
ValuesCarried(headers, name) ==
    IF name \in DOMAIN headers THEN <<headers[name]>> ELSE <<>>

NamesWritten(lines) ==
    {HeaderOfLine(lines[i]).v.name : i \in {j \in 1..Len(lines) : HeaderOfLine(lines[j]).some}}

\* C24: every well-formed header line of the backend output other than
\* `Status` appears in the response with its name and value; several
\* well-formed lines with the same name are all carried, in order.
C24_EveryHeaderCarried ==
    (ParsedOutput /\ HasSeparator(php.stdout.v)) =>
        LET lines == HeaderBlockLines(php.stdout.v)
        IN  \A name \in NamesWritten(lines) :
               ValuesCarried(php.response.v.headers, name) = ValuesWritten(lines, name)

(* ------------------------------------------------------------------ *)
(* Patterns that do not compile (specification SpecRewrite)            *)
(* ------------------------------------------------------------------ *)
FileTests == {<<"-", "f">>, <<"-", "d">>, <<"-", "s">>, <<"-", "l">>, <<"-", "F">>}

\* the condition is a regex test whose pattern does not compile
MalformedCond(cond) ==
    /\ cond.pattern \notin FileTests
    /\ ~RegexNew(IF cond.nocase THEN NoCasePrefix \o cond.pattern ELSE cond.pattern).some

\* visited rule k compiles and is gated by one condition, which does not
SoleMalformedCond(k) ==
    /\ Len(RuleAt(k).conditions) = 1
    /\ MalformedCond(RuleAt(k).conditions[1])
    /\ RuleRegex(RuleAt(k)).some

\* C25: a malformed regex never aborts apply_rewrites. A visited rule
\* whose pattern does not compile is passed over without being tried and
\* without ending the call: the rule after it, if there is one, is visited
\* too. A condition whose pattern does not compile gives the raw value
\* false and its negate flag is applied to that: the pattern of a rule
\* gated by such a condition alone is tried iff the condition is negated.
C25_MalformedRegexSkipped ==
    /\ \A k \in Visited :
          ~RuleRegex(RuleAt(k)).some =>
             /\ rw.log[k].subject = None
             /\ (rw.pc = "done" /\ rw.log[k].rule < Len(htaccess.rewrite_rules)) =>
                   (k < Len(rw.log) /\ rw.log[k + 1].rule = rw.log[k].rule + 1)
    /\ \A k \in Visited :
          SoleMalformedCond(k) =>
             (rw.log[k].subject.some <=> RuleAt(k).conditions[1].negate)

\* a rule that does not compile was passed over and the next rule, gated
\* by a negated condition that does not compile, rewrote the request
C25_Witness ==
    /\ rw.pc = "done"
    /\ Len(rw.log) = 2
    /\ ~RuleRegex(RuleAt(1)).some
    /\ SoleMalformedCond(2)
    /\ RuleAt(2).conditions[1].negate
    /\ rw.result = Some(InternalRewrite(<<"/", "g">>))

\* the statuses a RedirectRule is documented to carry
RedirectStatuses == {301, 302, 303, 307, 308, 410, 451}

\* C26: every RedirectRule produced by parse_redirect_directive and by
\* the RedirectPermanent and RedirectTemp shorthands has a status in
\* {301, 302, 303, 307, 308, 410, 451}, whatever status token the line
\* carries: a keyword, a listed code or any other number.
C26_StatusIsRedirectStatus ==
    \A i \in 1..Len(ParsedRedirects) : ParsedRedirects[i].status \in RedirectStatuses

(* ------------------------------------------------------------------ *)
(* The substitution of a matching rule (specification SpecRewrite)     *)
(* ------------------------------------------------------------------ *)
\* the template with every placeholder `$k` of a group that took part in
\* the match replaced by that group, in one pass over the template: what
\* was inserted is not read again
RECURSIVE ReplacedAtOnce(_, _)
ReplacedAtOnce(template, caps) ==
    IF template = <<>> THEN <<>>
    ELSE IF /\ Head(template) = "$"
            /\ Len(template) >= 2
            /\ IsAsciiDigit(template[2])
            /\ CapsGet(caps, DigitValue(template[2])).some
         THEN CapsGet(caps, DigitValue(template[2])).v
              \o ReplacedAtOnce(Drop(template, 2), caps)
         ELSE <<Head(template)>> \o ReplacedAtOnce(Tail(template), caps)

\* the output the claim gives visited rule k
OutputAtOnce(k) ==
    ReplacedAtOnce(RuleAt(k).substitution, Captures(RuleRegex(RuleAt(k)).v, Subject).v)

\* what is done with an output: an absolute URL is kept as it is, a local
\* one gets the base in front unless it starts with a slash and the query
\* string behind when qsappend asks for it
HandedOn(k, output) ==
    IF IsExternal(output) THEN output
    ELSE LET based == IF output # <<>> /\ Head(output) = "/" THEN output
                      ELSE htaccess.rewrite_base \o output
         IN  IF RuleAt(k).qsappend /\ ctx.query_string # <<>>
             THEN based \o (IF \E j \in 1..Len(based) : based[j] = "?" THEN <<"&">> ELSE <<"?">>)
                        \o ctx.query_string
             ELSE based

\* the URI the engine went on with after visited rule k: the redirect
\* target when the call ended there with a redirect, else the current URI
\* after the rule
UriAfter(k) ==
    IF k < Len(rw.log) THEN rw.log[k + 1].uri
    ELSE IF rw.result.some /\ rw.result.v.kind = "Redirect" THEN rw.result.v.url
    ELSE rw.current_uri

\* C27: the output built for a matching rewrite rule is the substitution
\* template with every placeholder `$k` replaced by capture group k, all
\* placeholders at once: text that comes from a capture group is inserted
\* as it is and is not read as a placeholder, also when the request path
\* holds a `$` and a digit.
C27_PlaceholdersReplacedAtOnce ==
    \A k \in Visited :
       (Hit(k) /\ RuleAt(k).substitution # <<"-">>) =>
          UriAfter(k) = HandedOn(k, OutputAtOnce(k))

(* ------------------------------------------------------------------ *)
(* What the tables are keyed by (specification Spec)                   *)
(* ------------------------------------------------------------------ *)
\* the names the loaded blocks declare, as ServerName or as alias
DeclaredNames ==
    UNION {(IF loaded_vhosts[i].server_name.some THEN {loaded_vhosts[i].server_name.v} ELSE {})
             \cup Elements(loaded_vhosts[i].server_aliases) : i \in 1..Len(loaded_vhosts)}

\* the processed blocks that declare a name
Declarers(name) == {i \in Processed : Declares(loaded_vhosts[i], name)}

\* the processed blocks that have a ServerName and declare a name
NamedDeclarers(name) ==
    {i \in Declarers(name) : loaded_vhosts[i].server_name.some}

\* the processed blocks without ServerName
Unnamed == {i \in Processed : ~loaded_vhosts[i].server_name.some}

Last(S) == CHOOSE i \in S : \A j \in S : j <= i

First(S) == CHOOSE i \in S : \A j \in S : i <= j

\* the TLS registry holds, for a name, the pair of the block loaded last
\* among those that declare it and whose material loaded; the default pair
\* and the default virtual host are those of the first block without
\* ServerName (whose material loaded, for the pair)
RegistryAndDefaults ==
    /\ \A n \in DeclaredNames :
          IF Registrants(n) # {}
          THEN n \in DOMAIN ssl_certs
               /\ ssl_certs[n] = Material(loaded_vhosts[Last(Registrants(n))])
          ELSE n \notin DOMAIN ssl_certs
    /\ default_ssl_cert = IF Nameless # {} THEN Some(Material(loaded_vhosts[First(Nameless)]))
                          ELSE None
    /\ default_vhost = IF Unnamed # {} THEN Some(loaded_vhosts[First(Unnamed)]) ELSE None

\* a request whose Host header names a registered host is served from the
\* root of that host, whatever port it arrived on
PortTakesNoPart ==
    (task.routed /\ NamedHost(task.host).some) =>
        task.doc_root = Some(RootOr(NamedHost(task.host).v, HardCodedRoot))

\* C28: whenever several blocks declare the same name, as ServerName or
\* as alias, the routing table holds under that name the block loaded
\* last among them, and the TLS registry the pair of the block loaded
\* last; among blocks without ServerName the first stays the default
\* virtual host and the default pair; the port of a request takes no part
\* in the choice of the host.
C28_LastDeclarerWins ==
    /\ \A n \in DeclaredNames :
          Cardinality(Declarers(n)) >= 2 =>
             (n \in DOMAIN vhosts_map /\ vhosts_map[n] = loaded_vhosts[Last(Declarers(n))])
    /\ RegistryAndDefaults
    /\ PortTakesNoPart

\* what the routing table does hold for a name: the block loaded last
\* among the blocks that have a ServerName and declare the name; the
\* aliases of a block without ServerName are entered in the TLS registry
\* and not in the routing table
LastNamedDeclarerWins ==
    /\ \A n \in DeclaredNames :
          IF NamedDeclarers(n) # {}
          THEN n \in DOMAIN vhosts_map
               /\ vhosts_map[n] = loaded_vhosts[Last(NamedDeclarers(n))]
          ELSE n \notin DOMAIN vhosts_map
    /\ RegistryAndDefaults
    /\ PortTakesNoPart

\* no loaded host's certificate and key load
NoMaterialLoads ==
    \A i \in 1..Len(loaded_vhosts) :
       TlsEligible(loaded_vhosts[i]) => ~Loads(loaded_vhosts[i])

\* C29: the port of a processed host with both a certificate path and a
\* key path is a TLS port and no plaintext port from the moment the host
\* is processed, whether its material loads or not; so when no host's
\* material loads, no such port, the configured server port included, has
\* a listener of either kind after startup.
C29_TlsPortWithoutListener ==
    /\ \A i \in Processed :
          TlsEligible(loaded_vhosts[i]) =>
             /\ VecContains(https_ports, loaded_vhosts[i].port)
             /\ ~VecContains(http_ports, loaded_vhosts[i].port)
    /\ (main_pc = "serving" /\ NoMaterialLoads) =>
          \A i \in 1..Len(loaded_vhosts) :
             TlsEligible(loaded_vhosts[i]) =>
                loaded_vhosts[i].port \notin listeners.http \cup listeners.https

\* startup is over, the one TLS-eligible host sits on the configured server
\* port, its material did not load, and nothing listens on that port while
\* another plaintext port is served
C29_Witness ==
    /\ main_pc = "serving"
    /\ NoMaterialLoads
    /\ \E i \in 1..Len(loaded_vhosts) :
          TlsEligible(loaded_vhosts[i]) /\ loaded_vhosts[i].port = ServerPort
    /\ ServerPort \notin listeners.http \cup listeners.https
    /\ listeners.http # {}

(* ------------------------------------------------------------------ *)
(* main.rs: handle_php_cgi, the gateway task and the spawned           *)
(* interpreter joined by three pipes (specification SpecCgi)           *)
(* ------------------------------------------------------------------ *)
\* the number of bytes a pipe holds before a write to it blocks
PipeCap == 1

\* the longest request body handed to the gateway
MaxBody == PipeCap + 1

\* the longest program of the interpreter
MaxOps == PipeCap + 2

\* what the interpreter does, one step at a time: "r" reads a byte of its
\* standard input (or meets the end of it), "o" writes a byte to its
\* standard output, "e" writes a byte to its standard error; after the last
\* step it exits
ChildOps == {"r", "o", "e"}

ChildPrograms == SeqsUpTo(ChildOps, MaxOps)

RequestBodies == SeqsUpTo({"x"}, MaxBody)

\* the state before cmd.spawn() of line 465
InitCgi ==
    /\ files = CHOOSE f \in RewriteFileSystems : TRUE
    /\ ServerOff
    /\ RewriteOff
    /\ ec = IdleEc
    /\ parser = IdleParser
    /\ php = IdlePhp
    /\ apache = IdleApache
    /\ \E body \in RequestBodies, plan \in ChildPrograms :
          cgi = [IdleCgi EXCEPT !.pc = "spawn", !.body = body, !.plan = plan]

CgiFrame == UNCHANGED <<files, server_vars, rewrite_vars, ec, parser, php, apache>>

\* lines 461-468: the three pipes are made and the interpreter is started,
\* or the spawn fails and handle_php_cgi returns the 500 response
ParentSpawn ==
    /\ cgi.pc = "spawn"
    /\ \/ cgi' = [cgi EXCEPT !.pc = "collect", !.child = "running", !.stdin_open = TRUE]
       \/ cgi' = [cgi EXCEPT !.pc = "returned",
                     !.response = Some(ErrorResponse(500,
                         <<"F", "a", "i", "l", "e", "d", " ", "t", "o", " ", "s", "p", "a", "w", "n", " ", "p", "h", "p", "-", "c", "g", "i">>))]
    /\ CgiFrame

\* lines 470-474: the request body is collected, or reading it fails and
\* handle_php_cgi returns the 400 response, dropping its ends of the pipes
ParentCollect ==
    /\ cgi.pc = "collect"
    /\ \/ cgi' = [cgi EXCEPT !.pc = "write"]
       \/ cgi' = [cgi EXCEPT !.pc = "returned", !.stdin_open = FALSE,
                     !.response = Some(ErrorResponse(400, <<"F", "a", "i", "l", "e", "d", " ", "t", "o", " ", "r", "e", "a", "d", " ", "b", "o", "d", "y">>))]
    /\ CgiFrame

\* line 477: stdin.write_all(&body_bytes).await hands the next byte to the
\* pipe when the pipe has room; when the interpreter has exited the write
\* fails, the failure is ignored and the pipe end is dropped (line 480);
\* with the pipe full and the interpreter alive the write stays pending
ParentWrite ==
    /\ cgi.pc = "write"
    /\ cgi.written < Len(cgi.body)
    /\ IF cgi.child = "exited"
       THEN cgi' = [cgi EXCEPT !.pc = "wait", !.stdin_open = FALSE]
       ELSE /\ Len(cgi.stdin) < PipeCap
            /\ cgi' = [cgi EXCEPT !.stdin = Append(@, cgi.body[cgi.written + 1]),
                                  !.written = @ + 1]
    /\ CgiFrame

\* lines 477-480: write_all has written the whole body; the pipe end is
\* dropped at the end of the block
ParentCloseStdin ==
    /\ cgi.pc = "write"
    /\ cgi.written = Len(cgi.body)
    /\ cgi' = [cgi EXCEPT !.pc = "wait", !.stdin_open = FALSE]
    /\ CgiFrame

\* line 482: child.wait_with_output() reads the standard output and the
\* standard error of the interpreter, whichever has a byte
ParentRead ==
    /\ cgi.pc = "wait"
    /\ \/ /\ cgi.stdout # <<>>
          /\ cgi' = [cgi EXCEPT !.stdout = Tail(@), !.out = Append(@, Head(cgi.stdout))]
       \/ /\ cgi.stderr # <<>>
          /\ cgi' = [cgi EXCEPT !.stderr = Tail(@), !.err = Append(@, Head(cgi.stderr))]
    /\ CgiFrame

\* lines 482-491: the interpreter has exited and both pipes are read to
\* their end; the response is parsed from the captured standard output
ParentReturn ==
    /\ cgi.pc = "wait"
    /\ cgi.child = "exited"
    /\ cgi.stdout = <<>>
    /\ cgi.stderr = <<>>
    /\ cgi' = [cgi EXCEPT !.pc = "returned", !.response = Some(parse_php_response(cgi.out))]
    /\ CgiFrame

\* the interpreter reads a byte of its standard input, or meets the end
\* of it once the gateway dropped its end; with the pipe empty and open
\* the read stays pending
ChildRead ==
    /\ cgi.child = "running"
    /\ cgi.plan # <<>>
    /\ Head(cgi.plan) = "r"
    /\ IF cgi.stdin # <<>>
       THEN cgi' = [cgi EXCEPT !.stdin = Tail(@), !.plan = Tail(@)]
       ELSE /\ ~cgi.stdin_open
            /\ cgi' = [cgi EXCEPT !.plan = Tail(@)]
    /\ CgiFrame

\* the interpreter writes a byte to its standard output when the pipe has
\* room; once the gateway returned and dropped its end the write ends
\* the interpreter; with the pipe full the write stays pending
ChildWrite ==
    /\ cgi.child = "running"
    /\ cgi.plan # <<>>
    /\ Head(cgi.plan) = "o"
    /\ IF cgi.pc = "returned"
       THEN cgi' = [cgi EXCEPT !.child = "exited"]
       ELSE /\ Len(cgi.stdout) < PipeCap
            /\ cgi' = [cgi EXCEPT !.stdout = Append(@, "k"), !.plan = Tail(@)]
    /\ CgiFrame

\* the same for the standard error
ChildWriteErr ==
    /\ cgi.child = "running"
    /\ cgi.plan # <<>>
    /\ Head(cgi.plan) = "e"
    /\ IF cgi.pc = "returned"
       THEN cgi' = [cgi EXCEPT !.child = "exited"]
       ELSE /\ Len(cgi.stderr) < PipeCap
            /\ cgi' = [cgi EXCEPT !.stderr = Append(@, "w"), !.plan = Tail(@)]
    /\ CgiFrame

\* the interpreter has done its last step and exits
ChildExit ==
    /\ cgi.child = "running"
    /\ cgi.plan = <<>>
    /\ cgi' = [cgi EXCEPT !.child = "exited"]
    /\ CgiFrame

\* the steps of the task that runs handle_php_cgi
ParentSteps ==
    \/ ParentSpawn
    \/ ParentCollect
    \/ ParentWrite
    \/ ParentCloseStdin
    \/ ParentRead
    \/ ParentReturn

\* the steps of the interpreter process
ChildSteps ==
    \/ ChildRead
    \/ ChildWrite
    \/ ChildWriteErr
    \/ ChildExit

NextCgi ==
    \/ ParentSpawn
    \/ ParentCollect
    \/ ParentWrite
    \/ ParentCloseStdin
    \/ ParentRead
    \/ ParentReturn
    \/ ChildRead
    \/ ChildWrite
    \/ ChildWriteErr
    \/ ChildExit

\* the runtime polls the gateway task whenever it can step, and the
\* operating system runs the interpreter whenever it can step
SpecCgi == InitCgi /\ [][NextCgi]_vars /\ WF_vars(ParentSteps) /\ WF_vars(ChildSteps)

(* ------------------------------------------------------------------ *)
(* Properties of handle_php_cgi (specification SpecCgi)                *)
(* ------------------------------------------------------------------ *)
SpawnedCgi == cgi.child # "none"

\* the gateway waits for room in the standard input pipe while the
\* interpreter waits for room in a pipe the gateway does not read yet
EachWaitsOnTheOther ==
    /\ cgi.pc = "write"
    /\ cgi.written < Len(cgi.body)
    /\ cgi.child = "running"
    /\ Len(cgi.stdin) = PipeCap
    /\ cgi.plan # <<>>
    /\ \/ Head(cgi.plan) = "o" /\ Len(cgi.stdout) = PipeCap
       \/ Head(cgi.plan) = "e" /\ Len(cgi.stderr) = PipeCap

\* C30: with pipes of bounded capacity and fair scheduling, once the
\* interpreter is spawned handle_php_cgi eventually returns a response:
\* writing the whole body before reading the output never leaves the
\* gateway and the interpreter each waiting on the other.
C30_EventuallyResponds == SpawnedCgi ~> (cgi.pc = "returned")

\* a request body that fits the standard input pipe is answered
BodyWithinPipeResponds ==
    (SpawnedCgi /\ Len(cgi.body) <= PipeCap) ~> (cgi.pc = "returned")

\* the gateway and the interpreter never each wait on the other
NeverEachWaitsOnTheOther == ~EachWaitsOnTheOther

====
